---------------------------- MODULE LedgerProofs ----------------------------
(***************************************************************************)
(* Proofs about the ledgers: what a prediction was made and settled from,  *)
(* what a row and its audit say, and what a batch, a grade, a closing line *)
(* and the report of the settled rows rest on.                             *)
(***************************************************************************)
EXTENDS DecisionProofs, CryptoLedger, PaperLedger, SportsCycle

-----------------------------------------------------------------------------
(* CryptoLedger: what a prediction was made and settled from. *)

\* Whole minutes and the candles they close.
LEMMA MinutesPass ==
    ASSUME NEW L \in Nat \ {0}, NEW a \in Nat
    PROVE  /\ a \div L \in Nat
           /\ (a + 1) \div L = IF (a + 1) % L = 0 THEN a \div L + 1 ELSE a \div L
           /\ \A i \in Nat : (i * L) \div L = i /\ i * L \in Nat
           /\ \A i \in Nat : i * L <= a => i <= a \div L
  <1>1. a \div L \in Nat OBVIOUS
  <1>2. (a + 1) \div L = IF (a + 1) % L = 0 THEN a \div L + 1 ELSE a \div L OBVIOUS
  <1>3. \A i \in Nat : (i * L) \div L = i OBVIOUS
  <1>4. ASSUME NEW i \in Nat, i * L <= a PROVE i <= a \div L
    BY <1>4
  <1>5. \A i \in Nat : i * L \in Nat OBVIOUS
  <1> QED BY <1>1, <1>2, <1>3, <1>4, <1>5

\* Rows of different horizons can be put in the order of these.
LEMMA HorizonsAreOrdered ==
    ASSUME NEW rows, IsFiniteSet(rows), \A e \in rows : e.horizon \in Nat,
           \A e, f \in rows : e.horizon = f.horizon => e = f
    PROVE  LET s == InHorizonOrder(rows)
           IN  /\ s \in Seq(rows)
               /\ \A i, j \in DOMAIN s : s[i].horizon = s[j].horizon => i = j
  <1> DEFINE Sorted(s, R, n) == /\ s \in [1..n -> R]
                                /\ \A i, j \in 1..n : i < j => s[i].horizon < s[j].horizon
             S == {n \in Nat : \A R \in SUBSET rows : Cardinality(R) = n => \E s : Sorted(s, R, n)}
  <1>1. 0 \in S
    <2> SUFFICES ASSUME NEW R \in SUBSET rows PROVE \E s : Sorted(s, R, 0)
      OBVIOUS
    <2>1. PICK s : s = [i \in 1..0 |-> 0] OBVIOUS
    <2>2. s \in [1..0 -> R] BY <2>1
    <2>3. \A i \in 1..0 : FALSE OBVIOUS
    <2>4. Sorted(s, R, 0) BY <2>2, <2>3
    <2> QED BY <2>4
  <1>2. ASSUME NEW n \in Nat, n \in S PROVE n + 1 \in S
    <2> SUFFICES ASSUME NEW R \in SUBSET rows, Cardinality(R) = n + 1
                 PROVE  \E s : Sorted(s, R, n + 1)
      OBVIOUS
    <2>1. IsFiniteSet(R) BY FS_Subset
    <2>2. R # {}
      <3>1. Cardinality({}) = 0 BY FS_EmptySet
      <3>2. n + 1 # 0 OBVIOUS
      <3> QED BY <3>1, <3>2
    <2> DEFINE H == {e.horizon : e \in R}
    <2>3. H \in SUBSET Nat /\ H # {} BY <2>2
    <2>4. PICK h \in H : \A k \in H : h <= k
      <3> HIDE DEF H
      <3> QED BY <2>3, LeastNumber
    <2>5. PICK e \in R : e.horizon = h BY <2>4
    <2>6. \A f \in R \ {e} : e.horizon < f.horizon
      <3> TAKE f \in R \ {e}
      <3>1. e.horizon # f.horizon /\ f.horizon \in H OBVIOUS
      <3>2. e.horizon \in Nat /\ f.horizon \in Nat OBVIOUS
      <3> QED BY <2>4, <2>5, <3>1, <3>2
    <2>7. Cardinality(R \ {e}) = n
      <3>1. Cardinality(R \ {e}) = Cardinality(R) - 1 BY <2>1, <2>5, FS_RemoveElement
      <3>2. (n + 1) - 1 = n OBVIOUS
      <3> QED BY <3>1, <3>2
    <2>8. PICK s : Sorted(s, R \ {e}, n) BY <1>2, <2>7
    <2>9. PICK t : t = [i \in 1..(n + 1) |-> IF i = 1 THEN e ELSE s[i - 1]] OBVIOUS
    <2>10. t \in [1..(n + 1) -> R]
      <3>1. \A i \in 1..(n + 1) : i # 1 => i - 1 \in 1..n OBVIOUS
      <3> QED BY <2>8, <2>9, <3>1
    <2>11. ASSUME NEW i \in 1..(n + 1), NEW j \in 1..(n + 1), i < j
           PROVE  t[i].horizon < t[j].horizon
      <3>1. j - 1 \in 1..n /\ t[j] = s[j - 1] BY <2>9, <2>11
      <3>2. s[j - 1] \in R \ {e} BY <2>8, <3>1
      <3>3. CASE i = 1 BY <2>6, <2>9, <3>1, <3>2, <3>3
      <3>4. CASE i # 1
        <4>1. i - 1 \in 1..n /\ t[i] = s[i - 1] /\ i - 1 < j - 1 BY <2>9, <2>11, <3>4
        <4> QED BY <4>1, <3>1, <2>8
      <3> QED BY <3>3, <3>4
    <2>12. Sorted(t, R, n + 1) BY <2>10, <2>11
    <2> QED BY <2>12
  <1>3. Nat \subseteq S
    <2> HIDE DEF S
    <2> QED BY <1>1, <1>2, CountingUp
  <1> DEFINE n == Cardinality(rows)
             s == InHorizonOrder(rows)
  <1>4. n \in Nat BY FS_CardinalityType
  <1>5. \E t : Sorted(t, rows, n) BY <1>3, <1>4
  <1>6. \E t \in [1..n -> rows] : \A i, j \in DOMAIN t : i < j => t[i].horizon < t[j].horizon
    BY <1>5
  <1>7. s \in [1..n -> rows] /\ \A i, j \in DOMAIN s : i < j => s[i].horizon < s[j].horizon
    BY <1>6 DEF InHorizonOrder
  <1> HIDE DEF n, s
  <1>8. s \in Seq(rows) BY <1>4, <1>7
  <1>9. ASSUME NEW i \in DOMAIN s, NEW j \in DOMAIN s, s[i].horizon = s[j].horizon PROVE i = j
    <2>1. i \in 1..n /\ j \in 1..n /\ s[i] \in rows /\ s[j] \in rows BY <1>7
    <2>2. s[i].horizon \in Nat /\ s[j].horizon \in Nat BY <2>1
    <2>3. ~(i < j) /\ ~(j < i) BY <1>7, <1>9, <2>2
    <2> QED BY <2>1, <2>3, <1>4
  <1> QED BY <1>8, <1>9 DEF s

-----------------------------------------------------------------------------
CryptoFields ==
    {"at", "horizon", "settles", "side", "candle", "entry", "sequence", "state", "outcome",
     "price", "from"}
CryptoOutcomes == {"win", "loss", "no_edge"}
\* A logged row, as it was made from a closed candle, and as it was settled
LoggedRow(row) ==
    /\ row = [x \in DOMAIN row |-> row[x]] /\ CryptoFields \subseteq DOMAIN row
    /\ row.at \in 0..clClock /\ row.horizon \in Horizons /\ row.settles = row.at + row.horizon
    /\ row.side \in {"UP", "DOWN"}
    /\ row.candle.close \in Nat /\ row.candle.close <= row.at
    /\ row.candle.close \div CandleLength \in DOMAIN clPrices
    /\ row.entry = clPrices[row.candle.close \div CandleLength]
    /\ row.state \in {"unresolved", "settled", "push"}
    /\ row.state # "unresolved" =>
          /\ row.from >= row.settles /\ row.outcome = OutcomeOf(row, row.price)
CandleFits(k, time) ==
    /\ k.close \in Nat
    /\ k.close <= time =>
          /\ k.close \div CandleLength \in DOMAIN clPrices
          /\ k.price = clPrices[k.close \div CandleLength]
CycleFits(cycle) ==
    /\ cycle = [x \in DOMAIN cycle |-> cycle[x]]
    /\ {"at", "time", "candles", "rows", "held"} \subseteq DOMAIN cycle
    /\ cycle.time \in 0..clClock
    /\ \A k \in cycle.candles : CandleFits(k, cycle.time)
    /\ \A k, l \in cycle.candles : k.close = l.close => k = l
    /\ cycle.held \subseteq DOMAIN clLog /\ (cycle.at # "settling" => cycle.held = {})
\* A report that is being read: its statements are answered in their order, ...
LogStatements == {"raw", "unresolved", "exposures", "valid", "rows"}
SettledStatements ==
    {"settled", "pushes", "wins", "losses", "deduped", "audited", "settled rows", "deduped rows"}
ReportOrder(D) ==
    /\ "rejected" \in D => "raw" \in D
    /\ "reasons" \in D => "rejected" \in D
    /\ "settled" \in D => "reasons" \in D
    /\ "unresolved" \in D => "settled" \in D
    /\ "pushes" \in D => "unresolved" \in D
    /\ "wins" \in D => "pushes" \in D
    /\ "losses" \in D => "wins" \in D
    /\ "exposures" \in D => "losses" \in D
    /\ "deduped" \in D => "exposures" \in D
    /\ "duplicates" \in D => "deduped" \in D
    /\ "audited" \in D => "duplicates" \in D
    /\ "valid" \in D => "audited" \in D
    /\ "rows" \in D => "valid" \in D
    /\ "settled rows" \in D => "rows" \in D
    /\ "deduped rows" \in D => "settled rows" \in D
\* ... what was logged, settled or rejected then still is, ...
ReportAnswers(report) ==
    /\ \A s \in LogStatements \cap DOMAIN report : report[s] \subseteq DOMAIN clLog
    /\ \A s \in SettledStatements \cap DOMAIN report : report[s] \subseteq SettledCryptoRows
    /\ "pushes" \in DOMAIN report => \A i \in report["pushes"] : clLog[i].outcome = "no_edge"
    /\ "wins" \in DOMAIN report => \A i \in report["wins"] : clLog[i].outcome = "win"
    /\ "losses" \in DOMAIN report => \A i \in report["losses"] : clLog[i].outcome = "loss"
    /\ "duplicates" \in DOMAIN report => report["duplicates"] = {}
ReportRejections(report) ==
    /\ "rejected" \in DOMAIN report => \A r \in CryptoRejections :
          report["rejected"][r] \in Nat /\ report["rejected"][r] <= clRejections[r]
    /\ "reasons" \in DOMAIN report => \A r \in CryptoRejections :
          /\ report["reasons"][r] \in Nat /\ report["rejected"][r] <= report["reasons"][r]
\* ... and a later answer holds what is in the earlier ones.
KnownSettled(report) == (report["raw"] \ report["unresolved"]) \cup report["settled"]
ReportChain(report) ==
    LET D == DOMAIN report
    IN  /\ "unresolved" \in D =>
              /\ report["settled"] \cap report["unresolved"] = {}
              /\ KnownSettled(report) \subseteq SettledCryptoRows
        /\ "pushes" \in D => \A i \in KnownSettled(report) :
              clLog[i].outcome = "no_edge" => i \in report["pushes"]
        /\ "wins" \in D => \A i \in KnownSettled(report) :
              clLog[i].outcome = "win" => i \in report["wins"]
        /\ "losses" \in D => \A i \in KnownSettled(report) :
              clLog[i].outcome = "loss" => i \in report["losses"]
        /\ "exposures" \in D =>
              report["raw"] \cup report["settled"] \cup report["unresolved"] \subseteq report["exposures"]
        /\ "deduped" \in D =>
              report["pushes"] \cup report["wins"] \cup report["losses"] \subseteq report["deduped"]
        /\ "audited" \in D => report["deduped"] \subseteq report["audited"]
        /\ "deduped rows" \in D =>
              report["audited"] \cup report["settled rows"] \subseteq report["deduped rows"]
ReportFits(report) ==
    /\ ReportOrder(DOMAIN report) /\ ReportAnswers(report)
    /\ ReportRejections(report) /\ ReportChain(report)

LogFits ==
    /\ \E S : clLog \in Seq(S)
    /\ \A i \in DOMAIN clLog : LoggedRow(clLog[i])
    /\ \A i, j \in DOMAIN clLog :
          SameKey(clLog[i], clLog[j]) /\ clLog[i].at = clLog[j].at => i = j
OutcomesFit == \A i \in DOMAIN clLog : clLog[i].state = "unresolved" => clLog[i].outcome = ""
CryptoInv ==
    /\ clClock \in Nat /\ clCycles \in 0..MaxCycles
    /\ clPrices \in Seq(CryptoPrices) /\ Len(clPrices) = clClock \div CandleLength
    /\ LogFits /\ OutcomesFit /\ \A r \in CryptoRejections : clRejections[r] \in Nat
    /\ clCycle = [c \in CryptoCycles |-> clCycle[c]]
    /\ \A c \in CryptoCycles : CycleFits(clCycle[c])
    /\ \A c, d \in CryptoCycles : c # d => clCycle[c].held \cap clCycle[d].held = {}
    /\ ReportFits(clReport)

\* A prediction that is settled stays as it was made: settle_crypto_predictions.
LEMMA SettledRowFits ==
    ASSUME NEW row, LoggedRow(row), row.state = "unresolved",
           NEW cycle, \A k \in cycle.candles : k.close \in Nat
    PROVE  LET settled == Settled(cycle, row)
           IN  /\ LoggedRow(settled)
               /\ settled.at = row.at /\ settled.horizon = row.horizon /\ settled.side = row.side
               /\ settled.state # "unresolved" \/ settled = row
  <1> DEFINE k == _settlement_price_for(cycle, row)
             outcome == OutcomeOf(row, k.price)
             state == IF outcome = "no_edge" THEN "push" ELSE "settled"
             settled == [row EXCEPT !.state = state, !.outcome = outcome, !.price = k.price,
                                    !.from = k.close]
  <1>1. CASE row.settles > SettlementNow(cycle) \/ SettlementCandles(cycle, row) = {}
    BY <1>1 DEF Settled
  <1>2. CASE ~(row.settles > SettlementNow(cycle) \/ SettlementCandles(cycle, row) = {})
    <2>1. Settled(cycle, row) = settled BY <1>2, Zenon DEF Settled
    <2>2. k.close >= row.settles
      <3> DEFINE C == SettlementCandles(cycle, row)
                 closes == {c.close : c \in C}
      <3>1. C # {} /\ \A c \in C : c.close \in Nat /\ c.close >= row.settles
        BY <1>2 DEF SettlementCandles
      <3>2. \E n \in closes : \A m \in closes : n <= m
        <4>1. closes \in SUBSET Nat /\ closes # {} BY <3>1
        <4> HIDE DEF closes
        <4> QED BY <4>1, LeastNumber
      <3>3. \E c \in C : \A other \in C : c.close <= other.close BY <3>2
      <3>4. k \in C BY <3>3 DEF _settlement_price_for
      <3> QED BY <3>1, <3>4
    <2> HIDE DEF k
    <2>3. /\ settled = [x \in DOMAIN settled |-> settled[x]] /\ DOMAIN settled = DOMAIN row
          /\ \A x \in DOMAIN row \ {"state", "outcome", "price", "from"} : settled[x] = row[x]
      OBVIOUS
    <2>4. /\ settled.state = state /\ settled.outcome = outcome /\ settled.price = k.price
          /\ settled.from = k.close
      BY DEF LoggedRow, CryptoFields
    <2> HIDE DEF settled, outcome
    <2>5. /\ settled.at = row.at /\ settled.horizon = row.horizon /\ settled.settles = row.settles
          /\ settled.side = row.side /\ settled.candle = row.candle /\ settled.entry = row.entry
      BY <2>3 DEF LoggedRow, CryptoFields
    <2>6. settled.outcome = OutcomeOf(settled, settled.price)
      <3>1. OutcomeOf(settled, k.price) = OutcomeOf(row, k.price) BY <2>5 DEF OutcomeOf
      <3> QED BY <3>1, <2>4 DEF outcome
    <2>8. settled.state # "unresolved" BY <2>4
    <2>7. LoggedRow(settled) BY <2>2, <2>3, <2>4, <2>5, <2>6 DEF LoggedRow
    <2> QED BY <2>1, <2>5, <2>7, <2>8
  <1> QED BY <1>1, <1>2

\* A row stays as it was made while time passes and candles close.
LEMMA RowsStayFit ==
    ASSUME NEW row, LoggedRow(row), clClock \in Nat, clClock' \in Nat, clClock <= clClock',
           DOMAIN clPrices \subseteq DOMAIN clPrices',
           \A i \in DOMAIN clPrices : clPrices'[i] = clPrices[i]
    PROVE  LoggedRow(row)'
  BY DEF LoggedRow, OutcomeOf

-----------------------------------------------------------------------------
LEMMA NothingReadFits ==
    ASSUME NEW report, DOMAIN report = {}
    PROVE  ReportFits(report)
  BY DEF ReportFits, ReportOrder, ReportAnswers, ReportRejections, ReportChain

LEMMA CryptoStarts == clInit => CryptoInv
  <1> SUFFICES ASSUME clInit PROVE CryptoInv
    OBVIOUS
  <1>1. clLog \in Seq({}) /\ DOMAIN clLog = {} /\ clPrices \in Seq(CryptoPrices) /\ Len(clPrices) = 0
    BY DEF clInit
  <1>2. 0 \div CandleLength = 0
    <2>1. (0 * CandleLength) \div CandleLength = 0 BY MinutesPass, CryptoAssumption
    <2>2. 0 * CandleLength = 0 BY CryptoAssumption
    <2> QED BY <2>1, <2>2
  <1>3. CycleFits(NoCycle) /\ NoCycle.held = {} BY DEF clInit, NoCycle, CycleFits
  <1>4. LogFits /\ OutcomesFit BY <1>1 DEF LogFits, OutcomesFit
  <1>5. ReportFits(clReport)
    <2>1. DOMAIN clReport = {} BY DEF clInit
    <2> QED BY <2>1, NothingReadFits
  <1> QED BY <1>1, <1>2, <1>3, <1>4, <1>5, CryptoAssumption DEF clInit, CryptoInv

\* What a cycle has in memory stays right while the clock goes on and the log grows.
LEMMA CyclesStayFit ==
    ASSUME NEW cycle, CycleFits(cycle), clClock \in Nat, clClock' \in Nat, clClock <= clClock',
           DOMAIN clPrices \subseteq DOMAIN clPrices',
           \A i \in DOMAIN clPrices : clPrices'[i] = clPrices[i],
           DOMAIN clLog \subseteq DOMAIN clLog'
    PROVE  CycleFits(cycle)'
  <1>1. cycle.time \in 0..clClock' BY DEF CycleFits
  <1>2. \A k : CandleFits(k, cycle.time) => CandleFits(k, cycle.time)' BY DEF CandleFits
  <1> QED BY <1>1, <1>2 DEF CycleFits

\* A settled row is final and rejections are only added: a report that is being read
\* stays right.
LEMMA ReportStaysFit ==
    ASSUME ReportFits(clReport), DOMAIN clLog \subseteq DOMAIN clLog',
           \A i \in DOMAIN clLog : clLog[i].state # "unresolved" => clLog'[i] = clLog[i],
           \A r \in CryptoRejections :
              clRejections[r] \in Nat /\ clRejections'[r] \in Nat /\ clRejections[r] <= clRejections'[r],
           clReport' = clReport
    PROVE  ReportFits(clReport)'
  <1> DEFINE report == clReport
  <1>1. SettledCryptoRows \subseteq SettledCryptoRows' BY DEF SettledCryptoRows
  <1>2. \A i \in SettledCryptoRows : clLog'[i] = clLog[i] BY DEF SettledCryptoRows
  <1>3. ReportOrder(DOMAIN clReport)' BY DEF ReportFits, ReportOrder
  <1>4. ReportAnswers(clReport)'
    <2>1. ReportAnswers(clReport) BY DEF ReportFits
    <2> QED BY <1>1, <1>2, <2>1 DEF ReportAnswers, SettledStatements, LogStatements
  <1>5. ReportRejections(clReport)'
    <2>1. ReportRejections(clReport) BY DEF ReportFits
    <2> QED BY <2>1 DEF ReportRejections
  <1>6. ReportChain(clReport)'
    <2>1. ReportChain(clReport) /\ ReportOrder(DOMAIN clReport) BY DEF ReportFits
    <2> QED BY <1>1, <1>2, <2>1 DEF ReportChain, ReportOrder, KnownSettled
  <1> QED BY <1>3, <1>4, <1>5, <1>6 DEF ReportFits

LEMMA TickKeeps ==
    ASSUME CryptoInv, NEW price \in CryptoPrices, CryptoTick(price)
    PROVE  CryptoInv'
  <1>1. /\ clClock \in Nat /\ clPrices \in Seq(CryptoPrices) /\ Len(clPrices) = clClock \div CandleLength
        /\ CandleLength \in Nat \ {0}
    BY CryptoAssumption DEF CryptoInv
  <1>2. clClock' = clClock + 1 /\ UNCHANGED <<clLog, clRejections, clCycle, clCycles, clReport>>
    BY DEF CryptoTick
  <1>3. /\ clPrices' \in Seq(CryptoPrices) /\ Len(clPrices') = clClock' \div CandleLength
        /\ DOMAIN clPrices \subseteq DOMAIN clPrices'
        /\ \A i \in DOMAIN clPrices : clPrices'[i] = clPrices[i]
    <2>1. CASE (clClock + 1) % CandleLength = 0
      <3>1. clPrices' = Append(clPrices, price) BY <1>2, <2>1 DEF CryptoTick
      <3>2. (clClock + 1) \div CandleLength = clClock \div CandleLength + 1 BY <1>1, <2>1, MinutesPass
      <3> QED BY <3>1, <3>2, <1>1, <1>2
    <2>2. CASE (clClock + 1) % CandleLength # 0
      <3>1. clPrices' = clPrices BY <1>2, <2>2 DEF CryptoTick
      <3>2. (clClock + 1) \div CandleLength = clClock \div CandleLength BY <1>1, <2>2, MinutesPass
      <3> QED BY <3>1, <3>2, <1>1, <1>2
    <2> QED BY <2>1, <2>2
  <1>4. clClock' \in Nat /\ clClock <= clClock' BY <1>1, <1>2
  <1>5. LogFits'
    <2>1. ASSUME NEW row, LoggedRow(row) PROVE LoggedRow(row)'
      BY <1>1, <1>3, <1>4, <2>1, RowsStayFit
    <2>2. \A i \in DOMAIN clLog : LoggedRow(clLog[i]) BY DEF CryptoInv, LogFits
    <2>3. ASSUME NEW i \in DOMAIN clLog' PROVE LoggedRow(clLog[i])'
      <3> DEFINE row == clLog[i]
      <3>1. i \in DOMAIN clLog /\ clLog'[i] = row BY <1>2
      <3>2. LoggedRow(row) BY <2>2, <3>1
      <3> HIDE DEF row
      <3>3. \A r : LoggedRow(r) => LoggedRow(r)' BY <2>1
      <3> QED BY <3>1, <3>2, <3>3 DEF LoggedRow, OutcomeOf
    <2>4. LogFits BY DEF CryptoInv
    <2> QED BY <1>2, <2>3, <2>4 DEF LogFits, SameKey
  <1>6. ASSUME NEW c \in CryptoCycles PROVE CycleFits(clCycle[c])'
    <2>1. DOMAIN clLog \subseteq DOMAIN clLog' BY <1>2
    <2>2. ASSUME NEW cycle, CycleFits(cycle) PROVE CycleFits(cycle)'
      BY <1>1, <1>3, <1>4, <2>1, <2>2, CyclesStayFit
    <2>3. CycleFits(clCycle[c]) /\ clCycle'[c] = clCycle[c] BY <1>2 DEF CryptoInv
    <2> QED BY <2>2, <2>3 DEF CycleFits, CandleFits
  <1>7. ReportFits(clReport)'
    <2>1. \A i \in DOMAIN clLog : clLog'[i] = clLog[i] BY <1>2
    <2>2. \A r \in CryptoRejections : clRejections'[r] \in Nat /\ clRejections[r] <= clRejections'[r]
      BY <1>2 DEF CryptoInv
    <2>3. ReportFits(clReport) BY DEF CryptoInv
    <2> QED BY <1>2, <2>1, <2>2, <2>3, ReportStaysFit
  <1>8. OutcomesFit' /\ \A r \in CryptoRejections : clRejections'[r] \in Nat
    BY <1>2 DEF CryptoInv, OutcomesFit
  <1> QED BY <1>8, <1>2, <1>3, <1>4, <1>5, <1>6, <1>7 DEF CryptoInv

\* One cycle goes on; the log, the prices and the clock are as they were.
LEMMA CycleMoves ==
    ASSUME CryptoInv, NEW c \in CryptoCycles, NEW r, CycleFits(r),
           clCycle' = [clCycle EXCEPT ![c] = r],
           \A d \in CryptoCycles \ {c} : r.held \cap clCycle[d].held = {},
           clCycles' \in 0..MaxCycles,
           UNCHANGED <<clClock, clPrices, clLog, clRejections, clReport>>
    PROVE  CryptoInv'
  <1>1. /\ clCycle' = [d \in CryptoCycles |-> clCycle'[d]]
        /\ clCycle'[c] = r /\ \A d \in CryptoCycles \ {c} : clCycle'[d] = clCycle[d]
    BY DEF CryptoInv
  <1>2. /\ \A d \in CryptoCycles : CycleFits(clCycle'[d])
        /\ \A d, e \in CryptoCycles : d # e => clCycle'[d].held \cap clCycle'[e].held = {}
    BY <1>1 DEF CryptoInv
  <1>3. \A d \in CryptoCycles : CycleFits(clCycle[d])'
    BY <1>2 DEF CycleFits, CandleFits
  <1>4. LogFits' BY DEF CryptoInv, LogFits, LoggedRow, OutcomeOf, SameKey
  <1>5. ReportFits(clReport)'
    <2>1. \A i \in DOMAIN clLog : clLog'[i] = clLog[i] OBVIOUS
    <2>2. \A x \in CryptoRejections : clRejections'[x] \in Nat /\ clRejections[x] <= clRejections'[x]
      BY DEF CryptoInv
    <2>3. ReportFits(clReport) BY DEF CryptoInv
    <2> QED BY <2>1, <2>2, <2>3, ReportStaysFit
  <1>6. OutcomesFit' /\ \A x \in CryptoRejections : clRejections'[x] \in Nat
    BY DEF CryptoInv, OutcomesFit
  <1> QED BY <1>1, <1>2, <1>3, <1>4, <1>5, <1>6 DEF CryptoInv

\* The candles of a payload: the closed ones are those of the exchange.
LEMMA CandlesFit ==
    ASSUME CryptoInv, NEW partial
    PROVE  LET candles == normalize_coinbase_candles(partial)
           IN  /\ \A k \in candles : CandleFits(k, clClock)
               /\ \A k, l \in candles : k.close = l.close => k = l
  <1> DEFINE m == Len(clPrices)
             last == m + 1
             candle(i) == [close |-> i * CandleLength,
                           price |-> IF i < last THEN clPrices[i] ELSE partial,
                           open |-> IF i > 1 THEN clPrices[i - 1] ELSE partial]
             I == {k \in 1..last : k > last - CandleWindow}
  <1>1. /\ clClock \in Nat /\ m \in Nat /\ m = clClock \div CandleLength /\ CandleLength \in Nat \ {0}
        /\ DOMAIN clPrices = 1..m
    BY CryptoAssumption DEF CryptoInv
  <1>2. normalize_coinbase_candles(partial) = {candle(i) : i \in I}
    BY DEF normalize_coinbase_candles
  <1>3. \A i \in I : i \in Nat /\ i >= 1 BY <1>1
  <1>4. \A i \in I : candle(i).close = i * CandleLength /\ (i < last => candle(i).price = clPrices[i])
    OBVIOUS
  <1> HIDE DEF candle, I
  <1>5. ASSUME NEW i \in I PROVE CandleFits(candle(i), clClock)
    <2>1. /\ i * CandleLength \in Nat /\ (i * CandleLength) \div CandleLength = i
          /\ i * CandleLength <= clClock => i <= m
      <3>1. i \in Nat /\ CandleLength \in Nat \ {0} /\ clClock \in Nat /\ m = clClock \div CandleLength
        BY <1>1, <1>3
      <3> HIDE DEF m
      <3> QED BY <3>1, MinutesPass, Zenon
    <2>2. i * CandleLength <= clClock => i < last /\ i \in DOMAIN clPrices
      BY <2>1, <1>1, <1>3
    <2> QED BY <2>1, <2>2, <1>4 DEF CandleFits
  <1>6. ASSUME NEW i \in I, NEW j \in I, candle(i).close = candle(j).close PROVE i = j
    <2>1. (i * CandleLength) \div CandleLength = i /\ (j * CandleLength) \div CandleLength = j
      BY <1>1, <1>3, MinutesPass
    <2> QED BY <2>1, <1>4, <1>6
  <1> QED BY <1>2, <1>5, <1>6

LEMMA CollectKeeps ==
    ASSUME CryptoInv, NEW c \in CryptoCycles, NEW candles, collect_crypto_payload(c, candles),
           \A k \in candles : CandleFits(k, clClock),
           \A k, l \in candles : k.close = l.close => k = l
    PROVE  CryptoInv'
  <1> DEFINE r == [NoCycle EXCEPT !.at = "collected", !.time = clClock, !.candles = candles]
  <1>1. /\ r = [x \in DOMAIN r |-> r[x]]
        /\ DOMAIN r = {"at", "time", "candles", "rows", "held"}
        /\ r.at = "collected" /\ r.time = clClock /\ r.candles = candles /\ r.held = {}
    BY DEF NoCycle
  <1> HIDE DEF r
  <1>2. CycleFits(r) BY <1>1 DEF CryptoInv, CycleFits
  <1>3. clCycle' = [clCycle EXCEPT ![c] = r] BY DEF collect_crypto_payload, r
  <1>4. clCycles' \in 0..MaxCycles
    <2>1. clCycles \in 0..MaxCycles /\ MaxCycles \in Nat /\ clCycles < MaxCycles
      BY CryptoAssumption DEF CryptoInv, collect_crypto_payload
    <2> QED BY <2>1 DEF collect_crypto_payload
  <1>5. UNCHANGED <<clClock, clPrices, clLog, clRejections, clReport>> BY DEF collect_crypto_payload
  <1> QED BY <1>1, <1>2, <1>3, <1>4, <1>5, CycleMoves

LEMMA ReadLogKeeps ==
    ASSUME CryptoInv, NEW c \in CryptoCycles, ReadCryptoLog(c)
    PROVE  CryptoInv'
  <1> DEFINE old == clCycle[c]
             r == [old EXCEPT !.at = "logging", !.rows = clLog]
  <1>1. CycleFits(old) /\ old.at = "collected" BY DEF CryptoInv, ReadCryptoLog
  <1> HIDE DEF old
  <1>2. /\ r = [x \in DOMAIN r |-> r[x]] /\ DOMAIN r = DOMAIN old
        /\ \A x \in DOMAIN old \ {"at", "rows"} : r[x] = old[x]
    BY <1>1 DEF CycleFits
  <1>3. r.time = old.time /\ r.candles = old.candles /\ r.held = old.held
    BY <1>1, <1>2 DEF CycleFits
  <1>4. r.at = "logging" BY <1>1 DEF CycleFits
  <1> HIDE DEF r
  <1>5. old.held = {} BY <1>1 DEF CycleFits
  <1>6. CycleFits(r) BY <1>1, <1>2, <1>3, <1>4, <1>5 DEF CycleFits
  <1>7. clCycle' = [clCycle EXCEPT ![c] = r] BY DEF ReadCryptoLog, CryptoInv, r, old
  <1>8. UNCHANGED <<clClock, clPrices, clLog, clRejections, clReport, clCycles>> BY DEF ReadCryptoLog
  <1>9. clCycles' \in 0..MaxCycles BY <1>8 DEF CryptoInv
  <1> QED BY <1>3, <1>5, <1>6, <1>7, <1>8, <1>9, CycleMoves

LEMMA LockKeeps ==
    ASSUME CryptoInv, NEW c \in CryptoCycles, LockUnresolved(c)
    PROVE  CryptoInv'
  <1> DEFINE old == clCycle[c]
             held == {i \in DOMAIN clLog : clLog[i].state = "unresolved"} \ Held
             r == [old EXCEPT !.at = "settling", !.held = held]
  <1>1. CycleFits(old) BY DEF CryptoInv
  <1>2. held \subseteq DOMAIN clLog /\ \A d \in CryptoCycles : held \cap clCycle[d].held = {}
    BY DEF Held
  <1>3. clCycle' = [clCycle EXCEPT ![c] = r] BY DEF LockUnresolved, CryptoInv
  <1> HIDE DEF old, held
  <1>4. /\ r = [x \in DOMAIN r |-> r[x]] /\ DOMAIN r = DOMAIN old
        /\ \A x \in DOMAIN old \ {"at", "held"} : r[x] = old[x]
    BY <1>1 DEF CycleFits
  <1>5. r.time = old.time /\ r.candles = old.candles BY <1>1, <1>4 DEF CycleFits
  <1>6. r.at = "settling" /\ r.held = held BY <1>1 DEF CycleFits
  <1> HIDE DEF r
  <1>7. CycleFits(r) BY <1>1, <1>2, <1>4, <1>5, <1>6 DEF CycleFits
  <1>8. UNCHANGED <<clClock, clPrices, clLog, clRejections, clReport, clCycles>> BY DEF LockUnresolved
  <1>9. clCycles' \in 0..MaxCycles BY <1>8 DEF CryptoInv
  <1> QED BY <1>2, <1>3, <1>6, <1>7, <1>8, <1>9, CycleMoves

LEMMA CycleDiesKeeps ==
    ASSUME CryptoInv, NEW c \in CryptoCycles, CryptoCycleDies(c)
    PROVE  CryptoInv'
  <1>1. NoCycle.held = {} /\ NoCycle.time = 0 /\ NoCycle.candles = {} BY DEF NoCycle
  <1>2. CycleFits(NoCycle)
    <2>1. /\ NoCycle = [x \in DOMAIN NoCycle |-> NoCycle[x]]
          /\ {"at", "time", "candles", "rows", "held"} \subseteq DOMAIN NoCycle
      BY DEF NoCycle
    <2> QED BY <2>1, <1>1 DEF CycleFits, CryptoInv
  <1>3. clCycle' = [clCycle EXCEPT ![c] = NoCycle] BY DEF CryptoCycleDies
  <1>4. UNCHANGED <<clClock, clPrices, clLog, clRejections, clReport, clCycles>> BY DEF CryptoCycleDies
  <1>5. clCycles' \in 0..MaxCycles BY <1>4 DEF CryptoInv
  <1> QED BY <1>1, <1>2, <1>3, <1>4, <1>5, CycleMoves

-----------------------------------------------------------------------------
LEMMA TwoJoined ==
    ASSUME NEW S, NEW s \in Seq(S), NEW T, NEW t \in Seq(T)
    PROVE  /\ s \o t \in Seq(S \cup T) /\ DOMAIN s \subseteq DOMAIN (s \o t)
           /\ \A i \in DOMAIN s : (s \o t)[i] = s[i]
           /\ \A i \in DOMAIN (s \o t) :
                 i \in DOMAIN s \/ (i - Len(s) \in DOMAIN t /\ (s \o t)[i] = t[i - Len(s)])
  OBVIOUS

\* The candidates of a cycle have a horizon each and fit the log.
LEMMA CandidatesFit ==
    ASSUME CryptoInv, NEW c \in CryptoCycles,
           NEW k \in build_crypto_prediction_candidates(clCycle[c]),
           validate_crypto_prediction(k), NEW rows
    PROVE  LET row == Numbered(rows, k)
           IN  /\ LoggedRow(row) /\ row.state = "unresolved" /\ row.outcome = ""
               /\ row.at = k.at /\ row.horizon = k.horizon /\ row.side = k.side
               /\ k.at = clCycle[c].time
  <1> DEFINE cycle == clCycle[c]
  <1>1. PICK candle \in _latest_closed_records(cycle), h \in Horizons :
           k = _build_crypto_candidate(cycle, candle, h)
    BY DEF build_crypto_prediction_candidates
  <1>2. CycleFits(cycle) /\ candle \in cycle.candles /\ candle.close <= cycle.time
    BY DEF CryptoInv, _latest_closed_records, Closed
  <1>3. CandleFits(candle, cycle.time) /\ cycle.time \in 0..clClock BY <1>2 DEF CycleFits
  <1> HIDE DEF cycle
  <1>4. /\ k = [x \in DOMAIN k |-> k[x]] /\ DOMAIN k = CryptoFields
        /\ k.at = cycle.time /\ k.horizon = h /\ k.settles = cycle.time + h
        /\ k.side \in {"UP", "DOWN"} /\ k.candle = candle /\ k.entry = candle.price
        /\ k.state = "unresolved" /\ k.outcome = ""
    BY <1>1 DEF _build_crypto_candidate, CryptoFields
  <1>5. LoggedRow(k) BY <1>2, <1>3, <1>4 DEF LoggedRow, CandleFits
  <1> DEFINE row == Numbered(rows, k)
             n == rows[LatestOf(rows, k)].sequence + 1
  <1>6. row = k \/ row = [k EXCEPT !.sequence = n] BY DEF Numbered
  <1>7. CASE row = k BY <1>4, <1>5, <1>7 DEF cycle
  <1>8. CASE row = [k EXCEPT !.sequence = n]
    <2> HIDE DEF n, row
    <2>1. /\ row = [x \in DOMAIN row |-> row[x]] /\ DOMAIN row = DOMAIN k
          /\ \A x \in DOMAIN k \ {"sequence"} : row[x] = k[x]
      BY <1>4, <1>8
    <2>2. /\ row.at = k.at /\ row.horizon = k.horizon /\ row.settles = k.settles
          /\ row.side = k.side /\ row.candle = k.candle /\ row.entry = k.entry
          /\ row.state = k.state /\ row.outcome = k.outcome
      BY <2>1, <1>4 DEF CryptoFields
    <2>3. LoggedRow(row) BY <2>1, <2>2, <1>4, <1>5 DEF LoggedRow
    <2> QED BY <2>2, <2>3, <1>4 DEF cycle, row
  <1> QED BY <1>6, <1>7, <1>8

LEMMA CandidatesDiffer ==
    ASSUME CryptoInv, NEW c \in CryptoCycles,
           NEW k \in build_crypto_prediction_candidates(clCycle[c]),
           NEW l \in build_crypto_prediction_candidates(clCycle[c]), k.horizon = l.horizon
    PROVE  k = l
  <1> DEFINE cycle == clCycle[c]
  <1>1. PICK candle \in _latest_closed_records(cycle), h \in Horizons :
           k = _build_crypto_candidate(cycle, candle, h)
    BY DEF build_crypto_prediction_candidates
  <1>2. PICK other \in _latest_closed_records(cycle), g \in Horizons :
           l = _build_crypto_candidate(cycle, other, g)
    BY DEF build_crypto_prediction_candidates
  <1>3. CycleFits(cycle) BY DEF CryptoInv
  <1>4. candle.close = other.close
    <2>1. candle \in Closed(cycle) /\ other \in Closed(cycle) BY DEF _latest_closed_records
    <2>2. candle.close \in Nat /\ other.close \in Nat
      BY <1>3, <2>1 DEF Closed, CycleFits, CandleFits
    <2>3. candle.close <= other.close /\ other.close <= candle.close
      BY <2>1 DEF _latest_closed_records
    <2> QED BY <2>2, <2>3
  <1>5. candle = other BY <1>3, <1>4 DEF CycleFits, _latest_closed_records, Closed
  <1>6. h = g BY <1>1, <1>2 DEF _build_crypto_candidate
  <1> QED BY <1>1, <1>2, <1>5, <1>6

LEMMA LogKeeps ==
    ASSUME CryptoInv, NEW c \in CryptoCycles, log_crypto_predictions(c)
    PROVE  CryptoInv'
  <1> DEFINE cycle == clCycle[c]
             candidates == build_crypto_prediction_candidates(cycle)
             reason(k) == IF CryptoRejection(cycle.rows, k) # "" THEN CryptoRejection(cycle.rows, k)
                          ELSE IF ExactDuplicate(clLog, k) THEN "exact_duplicate" ELSE ""
             valid == {k \in candidates : validate_crypto_prediction(k)}
             kept == {k \in candidates : validate_crypto_prediction(k) /\ reason(k) = ""}
             new == {Numbered(cycle.rows, k) : k \in kept}
             s == InHorizonOrder(new)
  <1>1. clLog' = clLog \o s
    <2>1. {k \in valid : reason(k) = ""} = kept OBVIOUS
    <2>2. new = {Numbered(cycle.rows, k) : k \in {k \in valid : reason(k) = ""}} BY <2>1
    <2> QED BY <2>2 DEF log_crypto_predictions
  <1>2. \A k \in kept : k \in candidates /\ validate_crypto_prediction(k) /\ ~ExactDuplicate(clLog, k)
    OBVIOUS
  <1> HIDE DEF kept, reason
  <1>3. ASSUME NEW k \in kept
        PROVE  LET row == Numbered(cycle.rows, k)
               IN  /\ LoggedRow(row) /\ row.state = "unresolved" /\ row.outcome = ""
                   /\ row.at = cycle.time /\ row.horizon = k.horizon /\ row.horizon \in Nat
                   /\ \A i \in DOMAIN clLog : ~(SameKey(clLog[i], row) /\ clLog[i].at = row.at)
    <2> DEFINE row == Numbered(cycle.rows, k)
    <2>1. /\ LoggedRow(row) /\ row.state = "unresolved" /\ row.outcome = ""
          /\ row.at = k.at /\ row.horizon = k.horizon /\ row.side = k.side /\ k.at = cycle.time
      BY <1>2, CandidatesFit
    <2> HIDE DEF row
    <2>2. row.horizon \in Nat BY <2>1, CryptoAssumption DEF LoggedRow
    <2>3. \A i \in DOMAIN clLog : ~(SameKey(clLog[i], row) /\ clLog[i].at = row.at)
      BY <1>2, <2>1 DEF ExactDuplicate, SameKey
    <2> QED BY <2>1, <2>2, <2>3 DEF row
  <1>4. \A k, l \in kept : k.horizon = l.horizon => k = l BY <1>2, CandidatesDiffer
  <1>5. ASSUME NEW e \in new
        PROVE  /\ LoggedRow(e) /\ e.state = "unresolved" /\ e.outcome = "" /\ e.at = cycle.time /\ e.horizon \in Nat
               /\ e.horizon \in Horizons
               /\ \A i \in DOMAIN clLog : ~(SameKey(clLog[i], e) /\ clLog[i].at = e.at)
    <2>1. PICK k \in kept : e = Numbered(cycle.rows, k) OBVIOUS
    <2>2. /\ LoggedRow(e) /\ e.state = "unresolved" /\ e.outcome = "" /\ e.at = cycle.time /\ e.horizon \in Nat
          /\ \A i \in DOMAIN clLog : ~(SameKey(clLog[i], e) /\ clLog[i].at = e.at)
      BY <1>3, <2>1
    <2>3. e.horizon \in Horizons BY <2>2 DEF LoggedRow
    <2> QED BY <2>2, <2>3
  <1>6. ASSUME NEW e \in new, NEW f \in new, e.horizon = f.horizon PROVE e = f
    <2>1. PICK k \in kept : e = Numbered(cycle.rows, k) OBVIOUS
    <2>2. PICK l \in kept : f = Numbered(cycle.rows, l) OBVIOUS
    <2>3. e.horizon = k.horizon /\ f.horizon = l.horizon BY <1>3, <2>1, <2>2
    <2>4. k = l BY <1>4, <1>6, <2>3
    <2> QED BY <2>1, <2>2, <2>4
  <1> HIDE DEF new
  <1>7. IsFiniteSet(new)
    <2>1. IsFiniteSet(Horizons) BY CryptoAssumption
    <2> DEFINE f == [e \in new |-> e.horizon]
    <2>2. f \in Injection(new, Horizons)
      BY <1>5, <1>6 DEF Injection, IsInjective
    <2> QED BY <2>1, <2>2, FS_Injection
  <1>8. s \in Seq(new) /\ \A i, j \in DOMAIN s : s[i].horizon = s[j].horizon => i = j
    BY <1>5, <1>6, <1>7, HorizonsAreOrdered
  <1>9. \A i \in DOMAIN s : s[i] \in new BY <1>8, ElementsBelong
  <1> HIDE DEF s
  <1>10. PICK S : clLog \in Seq(S) BY DEF CryptoInv, LogFits
  <1>11. UNCHANGED <<clClock, clPrices, clCycles, clReport>> BY DEF log_crypto_predictions
  <1>12. /\ clLog' \in Seq(S \cup new) /\ DOMAIN clLog \subseteq DOMAIN clLog'
         /\ \A i \in DOMAIN clLog : clLog'[i] = clLog[i]
         /\ \A i \in DOMAIN clLog' :
               i \in DOMAIN clLog \/ (i - Len(clLog) \in DOMAIN s /\ clLog'[i] = s[i - Len(clLog)])
    BY <1>1, <1>8, <1>10, TwoJoined
  <1>13. \A i \in DOMAIN clLog' : i \in Int /\ Len(clLog) \in Int BY <1>10, <1>12
  <1>14. ASSUME NEW row, LoggedRow(row) PROVE LoggedRow(row)'
    BY <1>11, <1>14 DEF LoggedRow, OutcomeOf
  <1>15. \A i \in DOMAIN clLog' : LoggedRow(clLog'[i])
    BY <1>5, <1>9, <1>12 DEF CryptoInv, LogFits
  <1>37. ASSUME NEW e \in new, NEW i \in DOMAIN clLog PROVE ~(SameKey(clLog[i], e) /\ clLog[i].at = e.at)
    BY <1>5
  <1>38. ASSUME NEW i \in DOMAIN clLog', i \notin DOMAIN clLog PROVE clLog'[i] \in new
    BY <1>9, <1>12, <1>38
  <1>16. ASSUME NEW i \in DOMAIN clLog', NEW j \in DOMAIN clLog',
                SameKey(clLog'[i], clLog'[j]), clLog'[i].at = clLog'[j].at
         PROVE  i = j
    <2>1. CASE i \in DOMAIN clLog /\ j \in DOMAIN clLog
      BY <1>12, <1>16, <2>1 DEF CryptoInv, LogFits
    <2>2. CASE i \in DOMAIN clLog /\ j \notin DOMAIN clLog
      BY <1>12, <1>16, <1>37, <1>38, <2>2
    <2>3. CASE i \notin DOMAIN clLog /\ j \in DOMAIN clLog
      <3>1. SameKey(clLog'[j], clLog'[i]) BY <1>16 DEF SameKey
      <3> QED BY <1>12, <1>16, <1>37, <1>38, <2>3, <3>1
    <2>4. CASE i \notin DOMAIN clLog /\ j \notin DOMAIN clLog
      <3>1. /\ i - Len(clLog) \in DOMAIN s /\ j - Len(clLog) \in DOMAIN s
            /\ clLog'[i] = s[i - Len(clLog)] /\ clLog'[j] = s[j - Len(clLog)]
        BY <1>12, <2>4
      <3>2. i - Len(clLog) = j - Len(clLog) BY <1>8, <1>16, <3>1 DEF SameKey
      <3> QED BY <3>2, <1>13
    <2> QED BY <2>1, <2>2, <2>3, <2>4
  <1>17. LogFits'
    <2>1. \A i \in DOMAIN clLog' : LoggedRow(clLog[i])'
      BY <1>11, <1>15 DEF LoggedRow, OutcomeOf
    <2> QED BY <1>12, <1>16, <2>1 DEF LogFits, SameKey
  <1>36. OutcomesFit'
    <2> SUFFICES ASSUME NEW i \in DOMAIN clLog', clLog'[i].state = "unresolved"
                 PROVE  clLog'[i].outcome = ""
      BY DEF OutcomesFit
    <2>1. CASE i \in DOMAIN clLog BY <1>12, <2>1 DEF CryptoInv, OutcomesFit
    <2>2. CASE i \notin DOMAIN clLog
      <3> DEFINE row == clLog'[i]
      <3>1. row \in new BY <1>38, <2>2
      <3>2. row.outcome = "" BY <1>5, <3>1
      <3> QED BY <3>2
    <2> QED BY <2>1, <2>2
  <1> DEFINE Rejected(x) == Cardinality({k \in valid : reason(k) = x})
  <1>31. \A x \in CryptoRejections : clRejections'[x] = clRejections[x] + Rejected(x)
    BY DEF log_crypto_predictions, reason
  <1>32. IsFiniteSet(valid)
    <2>1. IsFiniteSet(Horizons) BY CryptoAssumption
    <2>2. ASSUME NEW k \in candidates PROVE k.horizon \in Horizons
      <3>1. PICK candle \in _latest_closed_records(cycle), h \in Horizons :
               k = _build_crypto_candidate(cycle, candle, h)
        BY DEF build_crypto_prediction_candidates
      <3> QED BY <3>1 DEF _build_crypto_candidate
    <2>3. \A k, l \in candidates : k.horizon = l.horizon => k = l BY CandidatesDiffer
    <2> HIDE DEF candidates
    <2> DEFINE f == [k \in candidates |-> k.horizon]
    <2>4. f \in Injection(candidates, Horizons) BY <2>2, <2>3 DEF Injection, IsInjective
    <2>5. IsFiniteSet(candidates) BY <2>1, <2>4, FS_Injection
    <2> QED BY <2>5, FS_Subset
  <1> HIDE DEF valid
  <1>33. \A x \in CryptoRejections : clRejections[x] \in Nat BY DEF CryptoInv
  <1>34. \A x : Rejected(x) \in Nat
    <2> TAKE x
    <2>1. IsFiniteSet({k \in valid : reason(k) = x}) BY <1>32, FS_Subset
    <2> QED BY <2>1, FS_CardinalityType
  <1> HIDE DEF Rejected
  <1>35. \A x \in CryptoRejections : clRejections'[x] \in Nat /\ clRejections[x] <= clRejections'[x]
    BY <1>31, <1>33, <1>34
  <1>18. ReportFits(clReport)'
    <2>1. ReportFits(clReport) BY DEF CryptoInv
    <2> QED BY <2>1, <1>11, <1>12, <1>33, <1>35, ReportStaysFit
  <1> DEFINE r == [cycle EXCEPT !.at = "logged", !.rows = << >>]
  <1>19. clCycle' = [clCycle EXCEPT ![c] = r] /\ cycle.at = "logging"
    BY DEF log_crypto_predictions, CryptoInv
  <1>20. CycleFits(cycle) BY DEF CryptoInv
  <1>21. /\ clCycle' = [d \in CryptoCycles |-> clCycle'[d]]
         /\ clCycle'[c] = r /\ \A d \in CryptoCycles \ {c} : clCycle'[d] = clCycle[d]
    BY <1>19 DEF CryptoInv
  <1> HIDE DEF cycle
  <1>22. /\ r = [x \in DOMAIN r |-> r[x]] /\ DOMAIN r = DOMAIN cycle
         /\ \A x \in DOMAIN cycle \ {"at", "rows"} : r[x] = cycle[x]
    BY <1>20 DEF CycleFits
  <1>23. r.time = cycle.time /\ r.candles = cycle.candles /\ r.held = cycle.held
    BY <1>20, <1>22 DEF CycleFits
  <1> HIDE DEF r
  <1>24. cycle.held = {} BY <1>19, <1>20 DEF CycleFits
  <1>25. CycleFits(r) BY <1>20, <1>22, <1>23, <1>24 DEF CycleFits
  <1>26. clClock \in Nat /\ clClock' \in Nat /\ clClock <= clClock' /\ clPrices' = clPrices
    BY <1>11 DEF CryptoInv
  <1>27. ASSUME NEW x, CycleFits(x) PROVE CycleFits(x)'
    BY <1>12, <1>26, <1>27, CyclesStayFit
  <1>28. \A d \in CryptoCycles : CycleFits(clCycle'[d]) BY <1>21, <1>25 DEF CryptoInv
  <1>29. ASSUME NEW d \in CryptoCycles PROVE CycleFits(clCycle[d])'
    <2>1. \A x : CycleFits(x) => CycleFits(x)' BY <1>27
    <2>2. CycleFits(clCycle'[d]) BY <1>28
    <2> QED BY <2>1, <2>2, <1>11, <1>12 DEF CycleFits, CandleFits
  <1>30. \A d, e \in CryptoCycles : d # e => clCycle'[d].held \cap clCycle'[e].held = {}
    <2>1. \A d \in CryptoCycles : clCycle'[d].held = clCycle[d].held
      BY <1>21, <1>23 DEF cycle
    <2> QED BY <2>1 DEF CryptoInv
  <1> QED BY <1>11, <1>17, <1>18, <1>21, <1>29, <1>30, <1>35, <1>36 DEF CryptoInv

\* A row that is settled is the same exposure.
LEMMA SettleKeeps ==
    ASSUME CryptoInv, NEW c \in CryptoCycles, settle_crypto_predictions(c)
    PROVE  CryptoInv'
  <1> DEFINE cycle == clCycle[c]
             Taken(i) == i \in cycle.held /\ clLog[i].state = "unresolved"
  <1>1. PICK S : clLog \in Seq(S) BY DEF CryptoInv, LogFits
  <1>2. CycleFits(cycle) BY DEF CryptoInv
  <1>3. UNCHANGED <<clClock, clPrices, clCycles, clReport>> BY DEF settle_crypto_predictions
  <1>4. /\ DOMAIN clLog' = DOMAIN clLog
        /\ \A i \in DOMAIN clLog : clLog'[i] = IF Taken(i) THEN Settled(cycle, clLog[i]) ELSE clLog[i]
    BY DEF settle_crypto_predictions
  <1>5. \A k \in cycle.candles : k.close \in Nat BY <1>2 DEF CycleFits, CandleFits
  <1>6. ASSUME NEW i \in DOMAIN clLog
        PROVE  /\ LoggedRow(clLog'[i]) /\ clLog'[i].at = clLog[i].at
               /\ clLog'[i].horizon = clLog[i].horizon /\ clLog'[i].side = clLog[i].side
               /\ clLog[i].state # "unresolved" => clLog'[i] = clLog[i]
               /\ clLog'[i].state # "unresolved" \/ clLog'[i] = clLog[i]
    <2> DEFINE row == clLog[i]
    <2>1. LoggedRow(row) BY DEF CryptoInv, LogFits
    <2>2. CASE Taken(i)
      <3>1. row.state = "unresolved" /\ clLog'[i] = Settled(cycle, row) BY <1>4, <2>2
      <3> HIDE DEF row, cycle
      <3> DEFINE settled == Settled(cycle, row)
      <3>2. /\ LoggedRow(settled) /\ settled.at = row.at /\ settled.horizon = row.horizon
            /\ settled.side = row.side /\ (settled.state # "unresolved" \/ settled = row)
        BY <1>5, <2>1, <3>1, SettledRowFits
      <3> QED BY <3>1, <3>2 DEF row
    <2>3. CASE ~Taken(i)
      <3>1. clLog'[i] = row BY <1>4, <2>3
      <3> QED BY <2>1, <3>1
    <2> QED BY <2>2, <2>3
  <1> HIDE DEF cycle, Taken
  <1>7. LogFits'
    <2>1. \E T : clLog' \in Seq(T)
      <3> DEFINE T == {clLog'[i] : i \in DOMAIN clLog}
      <3>1. clLog' = [i \in DOMAIN clLog |-> clLog'[i]] BY DEF settle_crypto_predictions
      <3>2. DOMAIN clLog = 1..Len(clLog) /\ Len(clLog) \in Nat BY <1>1
      <3>3. clLog' \in [1..Len(clLog) -> T] BY <3>1, <3>2
      <3>4. clLog' \in Seq(T) BY <3>2, <3>3
      <3> QED BY <3>4
    <2>2. \A i \in DOMAIN clLog' : LoggedRow(clLog[i])'
      BY <1>3, <1>4, <1>6 DEF LoggedRow, OutcomeOf
    <2>3. \A i, j \in DOMAIN clLog' :
             SameKey(clLog'[i], clLog'[j]) /\ clLog'[i].at = clLog'[j].at => i = j
      <3>1. \A i, j \in DOMAIN clLog :
               SameKey(clLog[i], clLog[j]) /\ clLog[i].at = clLog[j].at => i = j
        BY DEF CryptoInv, LogFits
      <3> QED BY <1>4, <1>6, <3>1 DEF SameKey
    <2> QED BY <2>1, <2>2, <2>3 DEF LogFits, SameKey
  <1>14. clRejections' = clRejections BY DEF settle_crypto_predictions
  <1>8. ReportFits(clReport)'
    <2>1. \A i \in DOMAIN clLog : clLog[i].state # "unresolved" => clLog'[i] = clLog[i]
      BY <1>6
    <2>2. \A x \in CryptoRejections : clRejections'[x] \in Nat /\ clRejections[x] <= clRejections'[x]
      BY <1>14 DEF CryptoInv
    <2>3. ReportFits(clReport) BY DEF CryptoInv
    <2> QED BY <1>3, <1>4, <1>14, <2>1, <2>2, <2>3, ReportStaysFit
  <1>9. /\ clCycle' = [d \in CryptoCycles |-> clCycle'[d]]
        /\ clCycle'[c] = NoCycle /\ \A d \in CryptoCycles \ {c} : clCycle'[d] = clCycle[d]
    BY DEF CryptoInv, settle_crypto_predictions
  <1>10. CycleFits(NoCycle)
    <2>1. /\ NoCycle = [x \in DOMAIN NoCycle |-> NoCycle[x]]
          /\ {"at", "time", "candles", "rows", "held"} \subseteq DOMAIN NoCycle
          /\ NoCycle.held = {} /\ NoCycle.time = 0 /\ NoCycle.candles = {}
      BY DEF NoCycle
    <2> QED BY <2>1 DEF CycleFits, CryptoInv
  <1>11. \A d \in CryptoCycles : CycleFits(clCycle'[d]) BY <1>9, <1>10 DEF CryptoInv
  <1>12. \A d \in CryptoCycles : CycleFits(clCycle[d])'
    BY <1>3, <1>4, <1>11 DEF CycleFits, CandleFits
  <1>13. \A d, e \in CryptoCycles : d # e => clCycle'[d].held \cap clCycle'[e].held = {}
    <2>1. clCycle'[c].held = {} BY <1>9 DEF NoCycle
    <2> QED BY <1>9, <2>1 DEF CryptoInv
  <1>15. OutcomesFit' /\ \A x \in CryptoRejections : clRejections'[x] \in Nat
    BY <1>4, <1>6, <1>14 DEF CryptoInv, OutcomesFit
  <1> QED BY <1>3, <1>7, <1>8, <1>9, <1>12, <1>13, <1>15 DEF CryptoInv

-----------------------------------------------------------------------------
(* The reports. *)

\* An exposure is logged once, so that each row is the first of its own.
LEMMA ExposuresDiffer ==
    ASSUME LogFits
    PROVE  /\ \A i, j \in DOMAIN clLog : SameCryptoExposure(i, j) => i = j
           /\ \A rows \in SUBSET DOMAIN clLog : _deduped_crypto_rows(rows) = rows
  <1>1. ASSUME NEW i \in DOMAIN clLog, NEW j \in DOMAIN clLog, SameCryptoExposure(i, j) PROVE i = j
    <2> DEFINE x == clLog[i]
               y == clLog[j]
    <2>1. LoggedRow(x) /\ LoggedRow(y) /\ SameKey(x, y) /\ x.settles = y.settles
      BY <1>1 DEF LogFits, SameCryptoExposure
    <2> HIDE DEF x, y
    <2>2. x.at \in Int /\ y.at \in Int /\ x.horizon \in Int /\ x.horizon = y.horizon
      BY <2>1, CryptoAssumption DEF LoggedRow, SameKey
    <2>3. x.at + x.horizon = y.at + x.horizon BY <2>1, <2>2 DEF LoggedRow
    <2>4. x.at = y.at BY <2>2, <2>3
    <2> QED BY <2>1, <2>4 DEF LogFits, x, y
  <1>2. ASSUME NEW rows \in SUBSET DOMAIN clLog PROVE _deduped_crypto_rows(rows) = rows
    <2>1. PICK S : clLog \in Seq(S) BY DEF LogFits
    <2>2. \A i \in rows : i \in Int /\ i <= i BY <2>1
    <2> QED BY <1>1, <2>2 DEF _deduped_crypto_rows
  <1> QED BY <1>1, <1>2

LEMMA LogIsFinite ==
    ASSUME LogFits
    PROVE  /\ IsFiniteSet(DOMAIN clLog) /\ Cardinality(DOMAIN clLog) = Len(clLog)
           /\ IsFiniteSet(SettledCryptoRows) /\ SettledCryptoRows \subseteq DOMAIN clLog
           /\ Cardinality(SettledCryptoRows) \in Nat
  <1>1. PICK S : clLog \in Seq(S) BY DEF LogFits
  <1>2. DOMAIN clLog = 1..Len(clLog) /\ Len(clLog) \in Nat BY <1>1
  <1>3. IsFiniteSet(1..Len(clLog)) /\ Cardinality(1..Len(clLog)) = Len(clLog)
    <2> DEFINE n == Len(clLog)
    <2>1. n \in Nat /\ n \in Int /\ 1 \in Int BY <1>2
    <2> HIDE DEF n
    <2>2. IsFiniteSet(1..n) /\ Cardinality(1..n) = IF 1 > n THEN 0 ELSE n - 1 + 1 BY <2>1, FS_Interval
    <2>3. (IF 1 > n THEN 0 ELSE n - 1 + 1) = n BY <2>1
    <2> QED BY <2>2, <2>3 DEF n
  <1>4. SettledCryptoRows \subseteq DOMAIN clLog BY DEF SettledCryptoRows
  <1> QED BY <1>2, <1>3, <1>4, FS_Subset, FS_CardinalityType

\* The sum over the parts of a set is the size of the set.
LEMMA PartsAddUp ==
    ASSUME NEW K, IsFiniteSet(K), NEW R, IsFiniteSet(R), NEW part \in [K -> SUBSET R],
           \A k, l \in K : k # l => part[k] \cap part[l] = {},
           R = UNION {part[k] : k \in K}
    PROVE  SumFunction([k \in K |-> Cardinality(part[k])]) = Cardinality(R)
  <1> DEFINE fun == [k \in K |-> Cardinality(part[k])]
             G(s) == UNION {part[k] : k \in s}
             Step(g) == [s \in SUBSET K |->
                 IF s = {} THEN 0
                 ELSE fun[CHOOSE x \in s : TRUE] + g[s \ {CHOOSE x \in s : TRUE}]]
             good == CHOOSE g : g = Step(g)
  <1>1. SumFunction(fun) = good[K]
    <2>1. DOMAIN fun = K OBVIOUS
    <2> HIDE DEF fun
    <2> QED BY <2>1 DEF SumFunction, SumFunctionOnSet, FoldFunctionOnSet, MapThenFoldSet
  <1>2. ASSUME NEW s \in SUBSET K, NEW x \in s
        PROVE  Cardinality(G(s)) = fun[x] + Cardinality(G(s \ {x}))
    <2>1. G(s) = part[x] \cup G(s \ {x}) /\ part[x] \cap G(s \ {x}) = {} OBVIOUS
    <2>2. IsFiniteSet(G(s))
      <3>1. G(s) \subseteq R OBVIOUS
      <3> QED BY <3>1, FS_Subset
    <2>3. fun[x] = Cardinality(part[x]) OBVIOUS
    <2> HIDE DEF G, fun
    <2>4. Cardinality(G(s)) = Cardinality(part[x]) + Cardinality(G(s \ {x})) BY <2>1, <2>2, TwoParts
    <2> QED BY <2>3, <2>4
  <1>3. Cardinality(G({})) = 0 /\ G(K) = R
    <2>1. G({}) = {} OBVIOUS
    <2> QED BY <2>1, FS_EmptySet
  <1> HIDE DEF fun, G
  <1>4. \E g : g = Step(g)
    <2> DEFINE g == [s \in SUBSET K |-> Cardinality(G(s))]
    <2>1. \A s \in SUBSET K : g[s] = IF s = {} THEN 0
                 ELSE fun[CHOOSE x \in s : TRUE] + g[s \ {CHOOSE x \in s : TRUE}]
      BY <1>2, <1>3
    <2>2. g = Step(g) BY <2>1
    <2> QED BY <2>2
  <1>5. good = Step(good) BY <1>4
  <1>6. \A s \in SUBSET K : good[s] = IF s = {} THEN 0
                 ELSE fun[CHOOSE x \in s : TRUE] + good[s \ {CHOOSE x \in s : TRUE}]
    <2> HIDE DEF good
    <2> QED BY <1>5
  <1> HIDE DEF good
  <1> DEFINE N == {n \in Nat : \A s \in SUBSET K : Cardinality(s) = n => good[s] = Cardinality(G(s))}
  <1>7. 0 \in N
    <2>1. \A s \in SUBSET K : Cardinality(s) = 0 => s = {} BY FS_Subset, FS_EmptySet
    <2> QED BY <2>1, <1>3, <1>6
  <1>8. ASSUME NEW n \in Nat, n \in N PROVE n + 1 \in N
    <2> SUFFICES ASSUME NEW s \in SUBSET K, Cardinality(s) = n + 1 PROVE good[s] = Cardinality(G(s))
      OBVIOUS
    <2>1. IsFiniteSet(s) BY FS_Subset
    <2>2. s # {}
      <3>1. Cardinality({}) = 0 BY FS_EmptySet
      <3>2. n + 1 # 0 OBVIOUS
      <3> QED BY <3>1, <3>2
    <2>3. PICK x \in s : good[s] = fun[x] + good[s \ {x}]
      <3> DEFINE x == CHOOSE x \in s : TRUE
      <3>1. x \in s BY <2>2
      <3>2. good[s] = fun[x] + good[s \ {x}] BY <1>6, <2>2
      <3> HIDE DEF x
      <3> QED BY <3>1, <3>2
    <2>4. Cardinality(s \ {x}) = n
      <3>1. Cardinality(s \ {x}) = Cardinality(s) - 1 BY <2>1, FS_RemoveElement
      <3>2. (n + 1) - 1 = n OBVIOUS
      <3> QED BY <3>1, <3>2
    <2>5. good[s \ {x}] = Cardinality(G(s \ {x})) BY <1>8, <2>4
    <2> QED BY <1>2, <2>3, <2>5
  <1>9. Nat \subseteq N
    <2> HIDE DEF N
    <2> QED BY <1>7, <1>8, CountingUp
  <1>10. good[K] = Cardinality(G(K)) BY <1>9, FS_CardinalityType
  <1> QED BY <1>1, <1>3, <1>10 DEF fun

\* A settled row is a win, a loss or a push, and no other row is one.
LEMMA OutcomesOfRows ==
    ASSUME LogFits, OutcomesFit
    PROVE  /\ \A i \in SettledCryptoRows : clLog[i].outcome \in CryptoOutcomes
           /\ \A o \in CryptoOutcomes : OutcomeRows(o) \subseteq SettledCryptoRows
  <1>1. ASSUME NEW i \in SettledCryptoRows PROVE clLog[i].outcome \in CryptoOutcomes
    <2> DEFINE row == clLog[i]
    <2>1. LoggedRow(row) /\ row.state # "unresolved" BY DEF LogFits, SettledCryptoRows
    <2> HIDE DEF row
    <2>2. row.outcome = OutcomeOf(row, row.price) BY <2>1 DEF LoggedRow
    <2>3. row.outcome \in CryptoOutcomes BY <2>2 DEF OutcomeOf, CryptoOutcomes
    <2> QED BY <2>3 DEF row
  <1>2. ASSUME NEW o \in CryptoOutcomes, NEW i \in OutcomeRows(o) PROVE i \in SettledCryptoRows
    <2> DEFINE row == clLog[i]
    <2>1. /\ i \in DOMAIN clLog /\ row.outcome = o
          /\ row.state = "unresolved" => row.outcome = ""
      BY DEF OutcomesFit, OutcomeRows
    <2> HIDE DEF row
    <2>2. row.state # "unresolved" BY <2>1 DEF CryptoOutcomes
    <2> QED BY <2>1, <2>2 DEF SettledCryptoRows, row
  <1> QED BY <1>1, <1>2

\* A set in two parts that have nothing in common, and in three.
InParts(R, A, B) == R = A \cup B /\ A \cap B = {}
LEMMA Halves ==
    ASSUME NEW R, IsFiniteSet(R), NEW A, NEW B, InParts(R, A, B)
    PROVE  /\ IsFiniteSet(A) /\ IsFiniteSet(B)
           /\ Cardinality(A) \in Nat /\ Cardinality(B) \in Nat
           /\ Cardinality(R) = Cardinality(A) + Cardinality(B)
  BY TwoParts DEF InParts
LEMMA ThreeParts ==
    ASSUME NEW R, IsFiniteSet(R), NEW A, NEW B, NEW C, NEW D, InParts(R, A, D), InParts(D, B, C)
    PROVE  /\ Cardinality(A) \in Nat /\ Cardinality(B) \in Nat /\ Cardinality(C) \in Nat
           /\ Cardinality(A) + Cardinality(B) + Cardinality(C) = Cardinality(R)
  <1>1. /\ IsFiniteSet(D) /\ Cardinality(A) \in Nat /\ Cardinality(D) \in Nat
        /\ Cardinality(R) = Cardinality(A) + Cardinality(D)
    BY Halves
  <1>2. /\ Cardinality(B) \in Nat /\ Cardinality(C) \in Nat
        /\ Cardinality(D) = Cardinality(B) + Cardinality(C)
    BY <1>1, Halves
  <1> QED BY <1>1, <1>2

LEMMA OutcomesAddUp ==
    ASSUME LogFits, OutcomesFit, NEW R \in SUBSET SettledCryptoRows
    PROVE  CountOf(R, "win") + CountOf(R, "loss") + CountOf(R, "no_edge") = Cardinality(R)
  <1> DEFINE Part(o) == {i \in R : clLog[i].outcome = o}
             A == Part("win")
             B == Part("loss")
             C == Part("no_edge")
             D == B \cup C
  <1>1. IsFiniteSet(R) BY LogIsFinite, FS_Subset
  <1>2. \A i \in R : clLog[i].outcome \in CryptoOutcomes BY OutcomesOfRows
  <1>3. InParts(R, A, D) BY <1>2 DEF CryptoOutcomes, InParts
  <1>4. InParts(D, B, C) BY DEF InParts
  <1>5. CountOf(R, "win") = Cardinality(A) /\ CountOf(R, "loss") = Cardinality(B)
        /\ CountOf(R, "no_edge") = Cardinality(C)
    BY DEF CountOf
  <1> HIDE DEF A, B, C, D
  <1>6. Cardinality(A) + Cardinality(B) + Cardinality(C) = Cardinality(R)
    BY <1>1, <1>3, <1>4, ThreeParts
  <1> QED BY <1>5, <1>6

Segmented(k, r, p, sizes) ==
    /\ IsFiniteSet(k) /\ IsFiniteSet(r) /\ p \in [k -> SUBSET r]
    /\ \A x, y \in k : x # y => p[x] \cap p[y] = {}
    /\ r = UNION {p[x] : x \in k}
    /\ sizes = [x \in k |-> Cardinality(p[x])]
LEMMA SegmentsCount ==
    ASSUME NEW k, NEW r, NEW p, NEW sizes, Segmented(k, r, p, sizes)
    PROVE  SumFunction(sizes) = Cardinality(r)
  <1>1. SumFunction([x \in k |-> Cardinality(p[x])]) = Cardinality(r)
    BY PartsAddUp DEF Segmented
  <1> QED BY <1>1 DEF Segmented

LEMMA PairsDiffer ==
    ASSUME NEW S, NEW T, NEW x \in S \X T, NEW y \in S \X T, x[1] = y[1], x[2] = y[2]
    PROVE  x = y
  OBVIOUS

\* Every row is in the segment of its horizon and its side.
LEMMA SegmentsAddUp ==
    ASSUME LogFits, clReport["deduped rows"] \subseteq DOMAIN clLog
    PROVE  LET table == _crypto_segment_table
           IN  SumFunction([key \in DOMAIN table |-> table[key].deduped]) = Counted("deduped rows")
  <1> DEFINE K == Horizons \X {"UP", "DOWN"}
             R == clReport["deduped rows"]
             part == [key \in K |->
                 {i \in R : clLog[i].horizon = key[1] /\ clLog[i].side = key[2]}]
             table == _crypto_segment_table
  <1>1. IsFiniteSet(K)
    <2>1. IsFiniteSet({"UP", "DOWN"})
      <3>1. IsFiniteSet({"UP"}) BY FS_Singleton
      <3>2. IsFiniteSet({"UP"} \cup {"DOWN"}) BY <3>1, FS_AddElement
      <3>3. {"UP"} \cup {"DOWN"} = {"UP", "DOWN"} OBVIOUS
      <3> QED BY <3>2, <3>3
    <2> QED BY <2>1, FS_Product, CryptoAssumption
  <1>2. part \in [K -> SUBSET R] OBVIOUS
  <1>3. ASSUME NEW k \in K, NEW l \in K, k # l PROVE part[k] \cap part[l] = {}
    <2> SUFFICES ASSUME NEW i \in part[k], i \in part[l] PROVE FALSE OBVIOUS
    <2>1. clLog[i].horizon = k[1] /\ clLog[i].side = k[2] OBVIOUS
    <2>2. clLog[i].horizon = l[1] /\ clLog[i].side = l[2] OBVIOUS
    <2>3. k[1] = l[1] /\ k[2] = l[2] BY <2>1, <2>2
    <2> QED BY <1>3, <2>3, PairsDiffer
  <1>4. R = UNION {part[k] : k \in K}
    <2>1. ASSUME NEW i \in R PROVE \E k \in K : i \in part[k]
      <3> DEFINE row == clLog[i]
                 k == <<row.horizon, row.side>>
      <3>1. i \in DOMAIN clLog /\ LoggedRow(row) BY DEF LogFits
      <3>2. k \in K /\ k[1] = row.horizon /\ k[2] = row.side BY <3>1 DEF LoggedRow
      <3>3. i \in part[k] BY <3>1, <3>2
      <3> QED BY <3>2, <3>3
    <2>2. \A k \in K : part[k] \subseteq R OBVIOUS
    <2> HIDE DEF K, part
    <2> QED BY <2>1, <2>2
  <1>5. DOMAIN table = K BY DEF _crypto_segment_table
  <1>6. \A key \in K : table[key].deduped = Cardinality(part[key]) BY DEF _crypto_segment_table
  <1>7. IsFiniteSet(R) BY LogIsFinite, FS_Subset
  <1> HIDE DEF K, part, table, R
  <1>8. [key \in DOMAIN table |-> table[key].deduped] = [key \in K |-> Cardinality(part[key])]
    BY <1>5, <1>6
  <1>10. \A k, l \in K : k # l => part[k] \cap part[l] = {} BY <1>3
  <1>9. SumFunction([key \in K |-> Cardinality(part[key])]) = Cardinality(R)
    <2> DEFINE sizes == [key \in K |-> Cardinality(part[key])]
    <2>1. Segmented(K, R, part, sizes) BY <1>1, <1>2, <1>4, <1>7, <1>10 DEF Segmented
    <2> HIDE DEF sizes
    <2>2. SumFunction(sizes) = Cardinality(R) BY <2>1, SegmentsCount
    <2> QED BY <2>2 DEF sizes
  <1> QED BY <1>8, <1>9 DEF table, Counted, R

\* The settled rows of a segment were read before its settled exposures, and none of
\* its exposures is logged twice.
LEMMA SegmentsAreClean ==
    ASSUME LogFits, clReport["rows"] \subseteq DOMAIN clLog,
           clReport["deduped rows"] \subseteq DOMAIN clLog,
           clReport["settled rows"] \subseteq clReport["deduped rows"]
    PROVE  LET table == _crypto_segment_table
           IN  \A key \in DOMAIN table :
                  /\ table[key].settled <= table[key].deduped
                  /\ table[key].classification # "contaminated_by_duplicate_exposures"
  <1> DEFINE K == Horizons \X {"UP", "DOWN"}
             table == _crypto_segment_table
             of(rows, key) == {i \in rows : clLog[i].horizon = key[1] /\ clLog[i].side = key[2]}
  <1>1. DOMAIN table = K BY DEF _crypto_segment_table
  <1>2. ASSUME NEW key \in K
        PROVE  /\ table[key].settled <= table[key].deduped
               /\ table[key].classification # "contaminated_by_duplicate_exposures"
    <2> DEFINE S == of(clReport["settled rows"], key)
               D == of(clReport["deduped rows"], key)
               R == of(clReport["rows"], key)
    <2>1. /\ table[key].settled = Cardinality(S) /\ table[key].deduped = Cardinality(D)
          /\ table[key].classification = _crypto_segment_classification(D, DuplicatesIn(R))
      BY DEF _crypto_segment_table
    <2>2. S \subseteq D /\ D \subseteq DOMAIN clLog /\ R \subseteq DOMAIN clLog OBVIOUS
    <2>3. DuplicatesIn(R) = {} BY <2>2, ExposuresDiffer DEF DuplicatesIn
    <2> HIDE DEF S, D, R
    <2>4. IsFiniteSet(D) BY <2>2, LogIsFinite, FS_Subset
    <2>5. Cardinality(S) <= Cardinality(D) BY <2>2, <2>4, FS_Subset
    <2>6. _crypto_segment_classification(D, {}) # "contaminated_by_duplicate_exposures"
      BY DEF _crypto_segment_classification
    <2> HIDE DEF table
    <2> QED BY <2>1, <2>3, <2>5, <2>6
  <1> HIDE DEF table, K
  <1> QED BY <1>1, <1>2 DEF table

\* The reporter reads; the log and the cycles are as they were.
LEMMA ReporterMoves ==
    ASSUME CryptoInv, NEW report, ReportFits(report), clReport' = report,
           UNCHANGED <<clClock, clPrices, clLog, clRejections, clCycle, clCycles>>
    PROVE  CryptoInv'
  <1>1. ReportFits(clReport)'
    BY DEF ReportFits, ReportOrder, ReportAnswers, ReportRejections, ReportChain, KnownSettled,
           SettledCryptoRows
  <1>2. LogFits' BY DEF CryptoInv, LogFits, LoggedRow, OutcomeOf, SameKey
  <1>3. ASSUME NEW c \in CryptoCycles PROVE CycleFits(clCycle[c])'
    <2>1. CycleFits(clCycle[c]) BY DEF CryptoInv
    <2> QED BY <2>1 DEF CycleFits, CandleFits
  <1>4. OutcomesFit' BY DEF CryptoInv, OutcomesFit
  <1> QED BY <1>1, <1>2, <1>3, <1>4 DEF CryptoInv

\* What the statements answer.
LEMMA AnswersFit ==
    ASSUME LogFits, OutcomesFit
    PROVE  /\ SettledCryptoRows \subseteq DOMAIN clLog
           /\ _deduped_crypto_rows(SettledCryptoRows) = SettledCryptoRows
           /\ _deduped_crypto_rows(DOMAIN clLog) = DOMAIN clLog
           /\ DuplicatesIn(DOMAIN clLog) = {}
           /\ OutcomeRows("win") \subseteq SettledCryptoRows
           /\ OutcomeRows("loss") \subseteq SettledCryptoRows
           /\ OutcomeRows("no_edge") \subseteq SettledCryptoRows
  <1>1. SettledCryptoRows \in SUBSET DOMAIN clLog BY DEF SettledCryptoRows
  <1>2. DuplicatesIn(DOMAIN clLog) = {} BY ExposuresDiffer DEF DuplicatesIn
  <1>3. {"win", "loss", "no_edge"} \subseteq CryptoOutcomes BY DEF CryptoOutcomes
  <1> QED BY <1>1, <1>2, <1>3, ExposuresDiffer, OutcomesOfRows

\* A report with one more answer.
OneMore(old, report, statement, answer) ==
    /\ statement \notin DOMAIN old /\ DOMAIN report = DOMAIN old \cup {statement}
    /\ report[statement] = answer /\ \A s \in DOMAIN old : report[s] = old[s]

LEMMA StatementMoves ==
    ASSUME CryptoInv, NEW statement, NEW last, NEW answer, ReportStatement(statement, last, answer),
           \A report : OneMore(clReport, report, statement, answer) /\ last \subseteq DOMAIN clReport
                          => ReportFits(report)
    PROVE  CryptoInv'
  <1> DEFINE report == [s \in DOMAIN clReport \cup {statement} |->
                           IF s = statement THEN answer ELSE clReport[s]]
  <1>1. OneMore(clReport, report, statement, answer) /\ last \subseteq DOMAIN clReport
    BY DEF ReportStatement, OneMore
  <1>2. /\ clReport' = report
        /\ UNCHANGED <<clClock, clPrices, clLog, clRejections, clCycle, clCycles>>
    BY DEF ReportStatement
  <1> HIDE DEF report
  <1>3. ReportFits(report) BY <1>1
  <1> QED BY <1>2, <1>3, ReporterMoves

LEMMA RawAnswered ==
    ASSUME CryptoInv, NEW r, OneMore(clReport, r, "raw", DOMAIN clLog),
           {} \subseteq DOMAIN clReport
    PROVE  ReportFits(r)
  <1>1. ReportFits(clReport) /\ LogFits /\ OutcomesFit BY DEF CryptoInv
  <1>2. ReportOrder(DOMAIN r) BY <1>1 DEF ReportFits, ReportOrder, OneMore
  <1>3. ReportAnswers(r)
    BY <1>1, <1>2, AnswersFit DEF ReportFits, ReportAnswers, OneMore, LogStatements,
       SettledStatements, CryptoOutcomes, OutcomeRows
  <1>4. ReportRejections(r)
    BY <1>1, <1>2 DEF CryptoInv, ReportFits, ReportRejections, ReportOrder, OneMore
  <1>5. ReportChain(r)
    BY <1>1, <1>2, AnswersFit DEF ReportFits, ReportChain, ReportOrder, ReportAnswers, OneMore,
       KnownSettled, LogStatements, SettledStatements, CryptoOutcomes, OutcomeRows, SettledCryptoRows
  <1> QED BY <1>2, <1>3, <1>4, <1>5 DEF ReportFits

LEMMA RejectedAnswered ==
    ASSUME CryptoInv, NEW r, OneMore(clReport, r, "rejected", clRejections),
           {"raw"} \subseteq DOMAIN clReport
    PROVE  ReportFits(r)
  <1>1. ReportFits(clReport) /\ LogFits /\ OutcomesFit BY DEF CryptoInv
  <1>2. ReportOrder(DOMAIN r) BY <1>1 DEF ReportFits, ReportOrder, OneMore
  <1>3. ReportAnswers(r)
    BY <1>1, <1>2, AnswersFit DEF ReportFits, ReportAnswers, OneMore, LogStatements,
       SettledStatements, CryptoOutcomes, OutcomeRows
  <1>4. ReportRejections(r)
    <2>1. \A x \in CryptoRejections : clRejections[x] \in Nat BY DEF CryptoInv
    <2>2. r["rejected"] = clRejections /\ "rejected" \notin DOMAIN clReport BY DEF OneMore
    <2>3. "reasons" \notin DOMAIN r BY <1>1, <2>2 DEF ReportFits, ReportOrder, OneMore
    <2>4. \A x \in CryptoRejections :
             r["rejected"][x] \in Nat /\ r["rejected"][x] <= clRejections[x]
      BY <2>1, <2>2
    <2> QED BY <2>3, <2>4 DEF ReportRejections
  <1>5. ReportChain(r)
    BY <1>1, <1>2, AnswersFit DEF ReportFits, ReportChain, ReportOrder, ReportAnswers, OneMore,
       KnownSettled, LogStatements, SettledStatements, CryptoOutcomes, OutcomeRows, SettledCryptoRows
  <1> QED BY <1>2, <1>3, <1>4, <1>5 DEF ReportFits

LEMMA ReasonsAnswered ==
    ASSUME CryptoInv, NEW r, OneMore(clReport, r, "reasons", clRejections),
           {"rejected"} \subseteq DOMAIN clReport
    PROVE  ReportFits(r)
  <1>1. ReportFits(clReport) /\ LogFits /\ OutcomesFit BY DEF CryptoInv
  <1>2. ReportOrder(DOMAIN r) BY <1>1 DEF ReportFits, ReportOrder, OneMore
  <1>3. ReportAnswers(r)
    BY <1>1, <1>2, AnswersFit DEF ReportFits, ReportAnswers, OneMore, LogStatements,
       SettledStatements, CryptoOutcomes, OutcomeRows
  <1>4. ReportRejections(r)
    BY <1>1, <1>2 DEF CryptoInv, ReportFits, ReportRejections, ReportOrder, OneMore
  <1>5. ReportChain(r)
    BY <1>1, <1>2, AnswersFit DEF ReportFits, ReportChain, ReportOrder, ReportAnswers, OneMore,
       KnownSettled, LogStatements, SettledStatements, CryptoOutcomes, OutcomeRows, SettledCryptoRows
  <1> QED BY <1>2, <1>3, <1>4, <1>5 DEF ReportFits

LEMMA SettledAnswered ==
    ASSUME CryptoInv, NEW r, OneMore(clReport, r, "settled", SettledCryptoRows),
           {"reasons"} \subseteq DOMAIN clReport
    PROVE  ReportFits(r)
  <1>1. ReportFits(clReport) /\ LogFits /\ OutcomesFit BY DEF CryptoInv
  <1>2. ReportOrder(DOMAIN r) BY <1>1 DEF ReportFits, ReportOrder, OneMore
  <1>3. ReportAnswers(r)
    BY <1>1, <1>2, AnswersFit DEF ReportFits, ReportAnswers, OneMore, LogStatements,
       SettledStatements, CryptoOutcomes, OutcomeRows
  <1>4. ReportRejections(r)
    BY <1>1, <1>2 DEF CryptoInv, ReportFits, ReportRejections, ReportOrder, OneMore
  <1>5. ReportChain(r)
    BY <1>1, <1>2, AnswersFit DEF ReportFits, ReportChain, ReportOrder, ReportAnswers, OneMore,
       KnownSettled, LogStatements, SettledStatements, CryptoOutcomes, OutcomeRows, SettledCryptoRows
  <1> QED BY <1>2, <1>3, <1>4, <1>5 DEF ReportFits

LEMMA UnresolvedAnswered ==
    ASSUME CryptoInv, NEW r, OneMore(clReport, r, "unresolved", DOMAIN clLog \ SettledCryptoRows),
           {"settled"} \subseteq DOMAIN clReport
    PROVE  ReportFits(r)
  <1>1. ReportFits(clReport) /\ LogFits /\ OutcomesFit BY DEF CryptoInv
  <1>2. ReportOrder(DOMAIN r) BY <1>1 DEF ReportFits, ReportOrder, OneMore
  <1>3. ReportAnswers(r)
    BY <1>1, <1>2, AnswersFit DEF ReportFits, ReportAnswers, OneMore, LogStatements,
       SettledStatements, CryptoOutcomes, OutcomeRows
  <1>4. ReportRejections(r)
    BY <1>1, <1>2 DEF CryptoInv, ReportFits, ReportRejections, ReportOrder, OneMore
  <1>5. ReportChain(r)
    BY <1>1, <1>2, AnswersFit DEF ReportFits, ReportChain, ReportOrder, ReportAnswers, OneMore,
       KnownSettled, LogStatements, SettledStatements, CryptoOutcomes, OutcomeRows, SettledCryptoRows
  <1> QED BY <1>2, <1>3, <1>4, <1>5 DEF ReportFits

LEMMA PushesAnswered ==
    ASSUME CryptoInv, NEW r, OneMore(clReport, r, "pushes", OutcomeRows("no_edge")),
           {"unresolved"} \subseteq DOMAIN clReport
    PROVE  ReportFits(r)
  <1>1. ReportFits(clReport) /\ LogFits /\ OutcomesFit BY DEF CryptoInv
  <1>2. ReportOrder(DOMAIN r) BY <1>1 DEF ReportFits, ReportOrder, OneMore
  <1>3. ReportAnswers(r)
    BY <1>1, <1>2, AnswersFit DEF ReportFits, ReportAnswers, OneMore, LogStatements,
       SettledStatements, CryptoOutcomes, OutcomeRows
  <1>4. ReportRejections(r)
    BY <1>1, <1>2 DEF CryptoInv, ReportFits, ReportRejections, ReportOrder, OneMore
  <1>5. ReportChain(r)
    BY <1>1, <1>2, AnswersFit DEF ReportFits, ReportChain, ReportOrder, ReportAnswers, OneMore,
       KnownSettled, LogStatements, SettledStatements, CryptoOutcomes, OutcomeRows, SettledCryptoRows
  <1> QED BY <1>2, <1>3, <1>4, <1>5 DEF ReportFits

LEMMA WinsAnswered ==
    ASSUME CryptoInv, NEW r, OneMore(clReport, r, "wins", OutcomeRows("win")),
           {"pushes"} \subseteq DOMAIN clReport
    PROVE  ReportFits(r)
  <1>1. ReportFits(clReport) /\ LogFits /\ OutcomesFit BY DEF CryptoInv
  <1>2. ReportOrder(DOMAIN r) BY <1>1 DEF ReportFits, ReportOrder, OneMore
  <1>3. ReportAnswers(r)
    BY <1>1, <1>2, AnswersFit DEF ReportFits, ReportAnswers, OneMore, LogStatements,
       SettledStatements, CryptoOutcomes, OutcomeRows
  <1>4. ReportRejections(r)
    BY <1>1, <1>2 DEF CryptoInv, ReportFits, ReportRejections, ReportOrder, OneMore
  <1>5. ReportChain(r)
    BY <1>1, <1>2, AnswersFit DEF ReportFits, ReportChain, ReportOrder, ReportAnswers, OneMore,
       KnownSettled, LogStatements, SettledStatements, CryptoOutcomes, OutcomeRows, SettledCryptoRows
  <1> QED BY <1>2, <1>3, <1>4, <1>5 DEF ReportFits

LEMMA LossesAnswered ==
    ASSUME CryptoInv, NEW r, OneMore(clReport, r, "losses", OutcomeRows("loss")),
           {"wins"} \subseteq DOMAIN clReport
    PROVE  ReportFits(r)
  <1>1. ReportFits(clReport) /\ LogFits /\ OutcomesFit BY DEF CryptoInv
  <1>2. ReportOrder(DOMAIN r) BY <1>1 DEF ReportFits, ReportOrder, OneMore
  <1>3. ReportAnswers(r)
    BY <1>1, <1>2, AnswersFit DEF ReportFits, ReportAnswers, OneMore, LogStatements,
       SettledStatements, CryptoOutcomes, OutcomeRows
  <1>4. ReportRejections(r)
    BY <1>1, <1>2 DEF CryptoInv, ReportFits, ReportRejections, ReportOrder, OneMore
  <1>5. ReportChain(r)
    BY <1>1, <1>2, AnswersFit DEF ReportFits, ReportChain, ReportOrder, ReportAnswers, OneMore,
       KnownSettled, LogStatements, SettledStatements, CryptoOutcomes, OutcomeRows, SettledCryptoRows
  <1> QED BY <1>2, <1>3, <1>4, <1>5 DEF ReportFits

LEMMA ExposuresAnswered ==
    ASSUME CryptoInv, NEW r, OneMore(clReport, r, "exposures", _deduped_crypto_rows(DOMAIN clLog)),
           {"losses"} \subseteq DOMAIN clReport
    PROVE  ReportFits(r)
  <1>1. ReportFits(clReport) /\ LogFits /\ OutcomesFit BY DEF CryptoInv
  <1>2. ReportOrder(DOMAIN r) BY <1>1 DEF ReportFits, ReportOrder, OneMore
  <1>3. ReportAnswers(r)
    BY <1>1, <1>2, AnswersFit DEF ReportFits, ReportAnswers, OneMore, LogStatements,
       SettledStatements, CryptoOutcomes, OutcomeRows
  <1>4. ReportRejections(r)
    BY <1>1, <1>2 DEF CryptoInv, ReportFits, ReportRejections, ReportOrder, OneMore
  <1>5. ReportChain(r)
    <2>1. {"raw", "settled", "unresolved", "pushes", "wins", "losses"} \subseteq DOMAIN clReport
      BY <1>1 DEF ReportFits, ReportOrder
    <2>2. /\ r["exposures"] = DOMAIN clLog
          /\ \A s \in DOMAIN clReport : r[s] = clReport[s] /\ s \in DOMAIN r
      BY <1>1, AnswersFit DEF OneMore
    <2>3. KnownSettled(r) = KnownSettled(clReport) BY <2>1, <2>2 DEF KnownSettled
    <2>4. r["raw"] \cup r["settled"] \cup r["unresolved"] \subseteq r["exposures"]
      BY <1>1, <2>1, <2>2, AnswersFit DEF ReportFits, ReportAnswers, LogStatements, SettledStatements
    <2>5. "deduped" \notin DOMAIN r /\ "audited" \notin DOMAIN r /\ "deduped rows" \notin DOMAIN r
      BY <1>1 DEF ReportFits, ReportOrder, OneMore
    <2> QED BY <1>1, <2>1, <2>2, <2>3, <2>4, <2>5 DEF ReportFits, ReportChain
  <1> QED BY <1>2, <1>3, <1>4, <1>5 DEF ReportFits

LEMMA DedupedAnswered ==
    ASSUME CryptoInv, NEW r, OneMore(clReport, r, "deduped", _deduped_crypto_rows(SettledCryptoRows)),
           {"exposures"} \subseteq DOMAIN clReport
    PROVE  ReportFits(r)
  <1>1. ReportFits(clReport) /\ LogFits /\ OutcomesFit BY DEF CryptoInv
  <1>2. ReportOrder(DOMAIN r) BY <1>1 DEF ReportFits, ReportOrder, OneMore
  <1>3. ReportAnswers(r)
    BY <1>1, <1>2, AnswersFit DEF ReportFits, ReportAnswers, OneMore, LogStatements,
       SettledStatements, CryptoOutcomes, OutcomeRows
  <1>4. ReportRejections(r)
    BY <1>1, <1>2 DEF CryptoInv, ReportFits, ReportRejections, ReportOrder, OneMore
  <1>5. ReportChain(r)
    <2>1. {"raw", "settled", "unresolved", "pushes", "wins", "losses", "exposures"} \subseteq DOMAIN clReport
      BY <1>1 DEF ReportFits, ReportOrder
    <2>2. /\ r["deduped"] = SettledCryptoRows
          /\ \A s \in DOMAIN clReport : r[s] = clReport[s] /\ s \in DOMAIN r
      BY <1>1, AnswersFit DEF OneMore
    <2>3. KnownSettled(r) = KnownSettled(clReport) BY <2>1, <2>2 DEF KnownSettled
    <2>4. r["pushes"] \cup r["wins"] \cup r["losses"] \subseteq r["deduped"]
      BY <1>1, <2>1, <2>2, AnswersFit DEF ReportFits, ReportAnswers, LogStatements, SettledStatements
    <2>5. "audited" \notin DOMAIN r /\ "deduped rows" \notin DOMAIN r
      BY <1>1 DEF ReportFits, ReportOrder, OneMore
    <2> QED BY <1>1, <2>1, <2>2, <2>3, <2>4, <2>5 DEF ReportFits, ReportChain
  <1> QED BY <1>2, <1>3, <1>4, <1>5 DEF ReportFits

LEMMA DuplicatesAnswered ==
    ASSUME CryptoInv, NEW r, OneMore(clReport, r, "duplicates", DuplicatesIn(DOMAIN clLog)),
           {"deduped"} \subseteq DOMAIN clReport
    PROVE  ReportFits(r)
  <1>1. ReportFits(clReport) /\ LogFits /\ OutcomesFit BY DEF CryptoInv
  <1>2. ReportOrder(DOMAIN r) BY <1>1 DEF ReportFits, ReportOrder, OneMore
  <1>3. ReportAnswers(r)
    BY <1>1, <1>2, AnswersFit DEF ReportFits, ReportAnswers, OneMore, LogStatements,
       SettledStatements, CryptoOutcomes, OutcomeRows
  <1>4. ReportRejections(r)
    BY <1>1, <1>2 DEF CryptoInv, ReportFits, ReportRejections, ReportOrder, OneMore
  <1>5. ReportChain(r)
    BY <1>1, <1>2, AnswersFit DEF ReportFits, ReportChain, ReportOrder, ReportAnswers, OneMore,
       KnownSettled, LogStatements, SettledStatements, CryptoOutcomes, OutcomeRows, SettledCryptoRows
  <1> QED BY <1>2, <1>3, <1>4, <1>5 DEF ReportFits

LEMMA AuditedAnswered ==
    ASSUME CryptoInv, NEW r, OneMore(clReport, r, "audited", _deduped_crypto_rows(SettledCryptoRows)),
           {"duplicates"} \subseteq DOMAIN clReport
    PROVE  ReportFits(r)
  <1>1. ReportFits(clReport) /\ LogFits /\ OutcomesFit BY DEF CryptoInv
  <1>2. ReportOrder(DOMAIN r) BY <1>1 DEF ReportFits, ReportOrder, OneMore
  <1>3. ReportAnswers(r)
    BY <1>1, <1>2, AnswersFit DEF ReportFits, ReportAnswers, OneMore, LogStatements,
       SettledStatements, CryptoOutcomes, OutcomeRows
  <1>4. ReportRejections(r)
    BY <1>1, <1>2 DEF CryptoInv, ReportFits, ReportRejections, ReportOrder, OneMore
  <1>5. ReportChain(r)
    <2>1. {"raw", "settled", "unresolved", "pushes", "wins", "losses", "exposures", "deduped"} \subseteq DOMAIN clReport
      BY <1>1 DEF ReportFits, ReportOrder
    <2>2. /\ r["audited"] = SettledCryptoRows
          /\ \A s \in DOMAIN clReport : r[s] = clReport[s] /\ s \in DOMAIN r
      BY <1>1, AnswersFit DEF OneMore
    <2>3. KnownSettled(r) = KnownSettled(clReport) BY <2>1, <2>2 DEF KnownSettled
    <2>4. r["deduped"] \subseteq r["audited"]
      BY <1>1, <2>1, <2>2, AnswersFit DEF ReportFits, ReportAnswers, LogStatements, SettledStatements
    <2>5. "deduped rows" \notin DOMAIN r
      BY <1>1 DEF ReportFits, ReportOrder, OneMore
    <2> QED BY <1>1, <2>1, <2>2, <2>3, <2>4, <2>5 DEF ReportFits, ReportChain
  <1> QED BY <1>2, <1>3, <1>4, <1>5 DEF ReportFits

LEMMA ValidAnswered ==
    ASSUME CryptoInv, NEW r, OneMore(clReport, r, "valid", DOMAIN clLog),
           {"audited"} \subseteq DOMAIN clReport
    PROVE  ReportFits(r)
  <1>1. ReportFits(clReport) /\ LogFits /\ OutcomesFit BY DEF CryptoInv
  <1>2. ReportOrder(DOMAIN r) BY <1>1 DEF ReportFits, ReportOrder, OneMore
  <1>3. ReportAnswers(r)
    BY <1>1, <1>2, AnswersFit DEF ReportFits, ReportAnswers, OneMore, LogStatements,
       SettledStatements, CryptoOutcomes, OutcomeRows
  <1>4. ReportRejections(r)
    BY <1>1, <1>2 DEF CryptoInv, ReportFits, ReportRejections, ReportOrder, OneMore
  <1>5. ReportChain(r)
    BY <1>1, <1>2, AnswersFit DEF ReportFits, ReportChain, ReportOrder, ReportAnswers, OneMore,
       KnownSettled, LogStatements, SettledStatements, CryptoOutcomes, OutcomeRows, SettledCryptoRows
  <1> QED BY <1>2, <1>3, <1>4, <1>5 DEF ReportFits

LEMMA RowsAnswered ==
    ASSUME CryptoInv, NEW r, OneMore(clReport, r, "rows", DOMAIN clLog),
           {"valid"} \subseteq DOMAIN clReport
    PROVE  ReportFits(r)
  <1>1. ReportFits(clReport) /\ LogFits /\ OutcomesFit BY DEF CryptoInv
  <1>2. ReportOrder(DOMAIN r) BY <1>1 DEF ReportFits, ReportOrder, OneMore
  <1>3. ReportAnswers(r)
    BY <1>1, <1>2, AnswersFit DEF ReportFits, ReportAnswers, OneMore, LogStatements,
       SettledStatements, CryptoOutcomes, OutcomeRows
  <1>4. ReportRejections(r)
    BY <1>1, <1>2 DEF CryptoInv, ReportFits, ReportRejections, ReportOrder, OneMore
  <1>5. ReportChain(r)
    BY <1>1, <1>2, AnswersFit DEF ReportFits, ReportChain, ReportOrder, ReportAnswers, OneMore,
       KnownSettled, LogStatements, SettledStatements, CryptoOutcomes, OutcomeRows, SettledCryptoRows
  <1> QED BY <1>2, <1>3, <1>4, <1>5 DEF ReportFits

LEMMA SettledRowsAnswered ==
    ASSUME CryptoInv, NEW r, OneMore(clReport, r, "settled rows", SettledCryptoRows),
           {"rows"} \subseteq DOMAIN clReport
    PROVE  ReportFits(r)
  <1>1. ReportFits(clReport) /\ LogFits /\ OutcomesFit BY DEF CryptoInv
  <1>2. ReportOrder(DOMAIN r) BY <1>1 DEF ReportFits, ReportOrder, OneMore
  <1>3. ReportAnswers(r)
    BY <1>1, <1>2, AnswersFit DEF ReportFits, ReportAnswers, OneMore, LogStatements,
       SettledStatements, CryptoOutcomes, OutcomeRows
  <1>4. ReportRejections(r)
    BY <1>1, <1>2 DEF CryptoInv, ReportFits, ReportRejections, ReportOrder, OneMore
  <1>5. ReportChain(r)
    BY <1>1, <1>2, AnswersFit DEF ReportFits, ReportChain, ReportOrder, ReportAnswers, OneMore,
       KnownSettled, LogStatements, SettledStatements, CryptoOutcomes, OutcomeRows, SettledCryptoRows
  <1> QED BY <1>2, <1>3, <1>4, <1>5 DEF ReportFits

LEMMA DedupedRowsAnswered ==
    ASSUME CryptoInv, NEW r, OneMore(clReport, r, "deduped rows", _deduped_crypto_rows(SettledCryptoRows)),
           {"settled rows"} \subseteq DOMAIN clReport
    PROVE  ReportFits(r)
  <1>1. ReportFits(clReport) /\ LogFits /\ OutcomesFit BY DEF CryptoInv
  <1>2. ReportOrder(DOMAIN r) BY <1>1 DEF ReportFits, ReportOrder, OneMore
  <1>3. ReportAnswers(r)
    BY <1>1, <1>2, AnswersFit DEF ReportFits, ReportAnswers, OneMore, LogStatements,
       SettledStatements, CryptoOutcomes, OutcomeRows
  <1>4. ReportRejections(r)
    BY <1>1, <1>2 DEF CryptoInv, ReportFits, ReportRejections, ReportOrder, OneMore
  <1>5. ReportChain(r)
    <2>1. {"raw", "settled", "unresolved", "pushes", "wins", "losses", "exposures", "deduped", "audited", "settled rows"} \subseteq DOMAIN clReport
      BY <1>1 DEF ReportFits, ReportOrder
    <2>2. /\ r["deduped rows"] = SettledCryptoRows
          /\ \A s \in DOMAIN clReport : r[s] = clReport[s] /\ s \in DOMAIN r
      BY <1>1, AnswersFit DEF OneMore
    <2>3. KnownSettled(r) = KnownSettled(clReport) BY <2>1, <2>2 DEF KnownSettled
    <2>4. r["audited"] \cup r["settled rows"] \subseteq r["deduped rows"]
      BY <1>1, <2>1, <2>2, AnswersFit DEF ReportFits, ReportAnswers, LogStatements, SettledStatements
    <2> QED BY <1>1, <2>1, <2>2, <2>3, <2>4 DEF ReportFits, ReportChain
  <1> QED BY <1>2, <1>3, <1>4, <1>5 DEF ReportFits

LEMMA ReporterKeeps ==
    ASSUME CryptoInv, CryptoReporter
    PROVE  CryptoInv'
  <1>1. CASE build_crypto_report
    <2>1. CASE ReportStatement("raw", {}, DOMAIN clLog)
      BY <2>1, RawAnswered, StatementMoves
    <2>2. CASE ReportStatement("rejected", {"raw"}, clRejections)
      BY <2>2, RejectedAnswered, StatementMoves
    <2>3. CASE ReportStatement("reasons", {"rejected"}, clRejections)
      BY <2>3, ReasonsAnswered, StatementMoves
    <2>4. CASE ReportStatement("settled", {"reasons"}, SettledCryptoRows)
      BY <2>4, SettledAnswered, StatementMoves
    <2>5. CASE ReportStatement("unresolved", {"settled"}, DOMAIN clLog \ SettledCryptoRows)
      BY <2>5, UnresolvedAnswered, StatementMoves
    <2>6. CASE ReportStatement("pushes", {"unresolved"}, OutcomeRows("no_edge"))
      BY <2>6, PushesAnswered, StatementMoves
    <2>7. CASE ReportStatement("wins", {"pushes"}, OutcomeRows("win"))
      BY <2>7, WinsAnswered, StatementMoves
    <2>8. CASE ReportStatement("losses", {"wins"}, OutcomeRows("loss"))
      BY <2>8, LossesAnswered, StatementMoves
    <2>9. CASE ReportStatement("exposures", {"losses"}, _deduped_crypto_rows(DOMAIN clLog))
      BY <2>9, ExposuresAnswered, StatementMoves
    <2>10. CASE ReportStatement("deduped", {"exposures"}, _deduped_crypto_rows(SettledCryptoRows))
      BY <2>10, DedupedAnswered, StatementMoves
    <2>11. CASE ReportStatement("duplicates", {"deduped"}, DuplicatesIn(DOMAIN clLog))
      BY <2>11, DuplicatesAnswered, StatementMoves
    <2> QED BY <1>1, <2>1, <2>2, <2>3, <2>4, <2>5, <2>6, <2>7, <2>8, <2>9, <2>10, <2>11 DEF build_crypto_report
  <1>2. CASE build_crypto_stage3b_audit_report
    <2>1. CASE ReportStatement("audited", {"duplicates"}, _deduped_crypto_rows(SettledCryptoRows))
      BY <2>1, AuditedAnswered, StatementMoves
    <2>2. CASE ReportStatement("valid", {"audited"}, DOMAIN clLog)
      BY <2>2, ValidAnswered, StatementMoves
    <2> QED BY <1>2, <2>1, <2>2 DEF build_crypto_stage3b_audit_report
  <1>3. CASE build_crypto_stage4_diagnostic_report
    <2>1. CASE ReportStatement("rows", {"valid"}, DOMAIN clLog)
      BY <2>1, RowsAnswered, StatementMoves
    <2>2. CASE ReportStatement("settled rows", {"rows"}, SettledCryptoRows)
      BY <2>2, SettledRowsAnswered, StatementMoves
    <2>3. CASE ReportStatement("deduped rows", {"settled rows"}, _deduped_crypto_rows(SettledCryptoRows))
      BY <2>3, DedupedRowsAnswered, StatementMoves
    <2> QED BY <1>3, <2>1, <2>2, <2>3 DEF build_crypto_stage4_diagnostic_report
  <1>4. CASE CryptoReportDone
    <2>1. clReport' = << >> /\ UNCHANGED <<clClock, clPrices, clLog, clRejections, clCycle, clCycles>>
      BY <1>4 DEF CryptoReportDone
    <2>2. ReportFits(<< >>)
      <3>1. DOMAIN << >> = {} OBVIOUS
      <3> QED BY <3>1, NothingReadFits
    <2> QED BY <2>1, <2>2, ReporterMoves
  <1> QED BY <1>1, <1>2, <1>3, <1>4 DEF CryptoReporter

\* The counts of a report that has been read.
LEMMA ReportsAddUp ==
    ASSUME CryptoInv
    PROVE  CryptoReportsAddUp
  <1> DEFINE report == clReport
             D == DOMAIN clReport
             Size(s) == Cardinality(report[s])
             all == report["wins"] \cup (report["losses"] \cup report["pushes"])
             resolved == Size("wins") + Size("losses") + Size("pushes")
  <1>1. LogFits /\ OutcomesFit /\ ReportFits(report) BY DEF CryptoInv
  <1>2. /\ IsFiniteSet(DOMAIN clLog) /\ SettledCryptoRows \subseteq DOMAIN clLog
        /\ \A i \in SettledCryptoRows : clLog[i].outcome \in CryptoOutcomes
    BY <1>1, LogIsFinite, OutcomesOfRows
  <1>3. \A R \in SUBSET DOMAIN clLog : IsFiniteSet(R) /\ Cardinality(R) \in Nat
    <2> TAKE R \in SUBSET DOMAIN clLog
    <2>1. IsFiniteSet(R) BY <1>2, FS_Subset
    <2> QED BY <2>1, FS_CardinalityType
  <1>4. \A R \in SUBSET DOMAIN clLog : \A S \in SUBSET R : Cardinality(S) <= Cardinality(R)
    BY <1>3, FS_Subset
  <1>5. ASSUME "duplicates" \in D
        PROVE  /\ Size("settled") <= resolved /\ resolved <= Size("deduped")
               /\ CountOf(report["deduped"], "win") + CountOf(report["deduped"], "loss")
                      + CountOf(report["deduped"], "no_edge") = Size("deduped")
               /\ Size("raw") <= Size("unresolved") + resolved
               /\ Size("settled") + Size("unresolved") <= Size("exposures")
               /\ Size("raw") <= Size("exposures") /\ Size("duplicates") = 0
    <2> DEFINE raw == report["raw"]
               settled == report["settled"]
               unresolved == report["unresolved"]
               exposures == report["exposures"]
               deduped == report["deduped"]
    <2>1. {"raw", "settled", "unresolved", "pushes", "wins", "losses", "exposures", "deduped"} \subseteq D
      BY <1>1, <1>5 DEF ReportFits, ReportOrder
    <2>2. /\ raw \subseteq DOMAIN clLog /\ unresolved \subseteq DOMAIN clLog
          /\ exposures \subseteq DOMAIN clLog /\ settled \subseteq SettledCryptoRows
          /\ deduped \subseteq SettledCryptoRows /\ all \subseteq SettledCryptoRows
      BY <1>1, <2>1 DEF ReportFits, ReportAnswers, LogStatements, SettledStatements
    <2>3. /\ report["wins"] \cap report["losses"] = {} /\ report["wins"] \cap report["pushes"] = {}
          /\ report["losses"] \cap report["pushes"] = {}
      BY <1>1, <2>1 DEF ReportFits, ReportAnswers
    <2>4. (raw \ unresolved) \subseteq all /\ settled \subseteq all
      BY <1>1, <1>2, <2>1 DEF ReportFits, ReportChain, KnownSettled, CryptoOutcomes
    <2>5. /\ settled \cap unresolved = {} /\ settled \cup unresolved \subseteq exposures
          /\ raw \subseteq exposures /\ all \subseteq deduped
      BY <1>1, <2>1 DEF ReportFits, ReportChain
    <2>6. report["duplicates"] = {} BY <1>1, <1>5 DEF ReportFits, ReportAnswers
    <2>7. resolved = Cardinality(all)
      <3> DEFINE A == report["wins"]
                 B == report["losses"]
                 C == report["pushes"]
                 E == B \cup C
      <3>1. IsFiniteSet(all) BY <1>2, <1>3, <2>2
      <3>2. InParts(all, A, E) /\ InParts(E, B, C) BY <2>3 DEF InParts
      <3>3. resolved = Cardinality(A) + Cardinality(B) + Cardinality(C) OBVIOUS
      <3> HIDE DEF A, B, C, E, all, resolved
      <3> QED BY <3>1, <3>2, <3>3, ThreeParts
    <2>8. CountOf(deduped, "win") + CountOf(deduped, "loss") + CountOf(deduped, "no_edge")
              = Cardinality(deduped)
      BY <1>1, <2>2, OutcomesAddUp
    <2> HIDE DEF all, resolved, raw, settled, unresolved, exposures, deduped
    <2>9. Cardinality(settled) <= Cardinality(all) /\ Cardinality(all) <= Cardinality(deduped)
      BY <1>2, <1>4, <2>2, <2>4, <2>5
    <2>10. Cardinality(raw) <= Cardinality(unresolved) + Cardinality(all)
      <3> DEFINE both == unresolved \cup (all \ unresolved)
      <3>1. raw \subseteq both /\ both \subseteq DOMAIN clLog BY <1>2, <2>2, <2>4
      <3>2. IsFiniteSet(both) /\ Cardinality(raw) <= Cardinality(both) BY <1>3, <1>4, <3>1
      <3>3. /\ Cardinality(both) = Cardinality(unresolved) + Cardinality(all \ unresolved)
            /\ Cardinality(both) \in Nat /\ Cardinality(all \ unresolved) \in Nat
        <4> DEFINE rest == all \ unresolved
        <4>1. InParts(both, unresolved, rest) BY DEF InParts
        <4> HIDE DEF rest, both
        <4>2. Cardinality(both) = Cardinality(unresolved) + Cardinality(rest) /\ Cardinality(rest) \in Nat
          BY <3>2, <4>1, Halves
        <4> QED BY <3>2, <4>2, FS_CardinalityType DEF rest
      <3>4. Cardinality(all \ unresolved) <= Cardinality(all) BY <1>2, <1>4, <2>2
      <3>5. /\ Cardinality(raw) \in Nat /\ Cardinality(unresolved) \in Nat /\ Cardinality(all) \in Nat
        BY <1>2, <1>3, <2>2
      <3> HIDE DEF both
      <3> QED BY <3>2, <3>3, <3>4, <3>5
    <2>11. Cardinality(settled) + Cardinality(unresolved) <= Cardinality(exposures)
      <3> DEFINE both == settled \cup unresolved
      <3>1. both \subseteq exposures /\ settled \cap unresolved = {} BY <2>5
      <3>2. IsFiniteSet(both) /\ Cardinality(both) <= Cardinality(exposures)
        BY <1>3, <1>4, <2>2, <3>1, FS_Subset
      <3>3. both = settled \cup unresolved OBVIOUS
      <3> HIDE DEF both
      <3>4. Cardinality(both) = Cardinality(settled) + Cardinality(unresolved)
        BY <3>1, <3>2, <3>3, TwoParts
      <3> QED BY <3>2, <3>4
    <2>12. Cardinality(raw) <= Cardinality(exposures) BY <1>4, <2>2, <2>5
    <2>13. Size("duplicates") = 0 BY <2>6, FS_EmptySet
    <2> QED BY <2>7, <2>8, <2>9, <2>10, <2>11, <2>12, <2>13
          DEF raw, settled, unresolved, exposures, deduped
  <1>6. ASSUME "valid" \in D
        PROVE  LET checks == _crypto_leakage_checks
               IN  /\ ~checks.future
                   /\ ~checks.excluded => Size("audited") > Size("deduped")
                   /\ ~checks.rejected => TotalRejected(report["reasons"])
                                              > TotalRejected(report["rejected"])
                   /\ gate_result(Size("audited")) = "blocked" => gate_result(Size("deduped")) = "blocked"
    <2> DEFINE checks == _crypto_leakage_checks
    <2>1. {"reasons", "rejected", "deduped", "audited"} \subseteq D
      BY <1>1, <1>6 DEF ReportFits, ReportOrder
    <2>2. /\ checks.excluded <=> Size("audited") = Size("deduped")
          /\ checks.rejected <=> TotalRejected(report["rejected"]) = TotalRejected(report["reasons"])
          /\ checks.future <=> \E i \in report["valid"] : clLog[i].candle.close > clLog[i].at
      BY DEF _crypto_leakage_checks, Counted
    <2>3. ~checks.future
      <3>1. report["valid"] \subseteq DOMAIN clLog
        BY <1>1, <1>6 DEF ReportFits, ReportAnswers, LogStatements
      <3>2. \A i \in DOMAIN clLog : ~(clLog[i].candle.close > clLog[i].at)
        <4> TAKE i \in DOMAIN clLog
        <4> DEFINE row == clLog[i]
        <4>1. LoggedRow(row) /\ clClock \in Nat BY <1>1 DEF LogFits, CryptoInv
        <4> HIDE DEF row
        <4>2. row.candle.close <= row.at /\ row.candle.close \in Int /\ row.at \in Int
          BY <4>1 DEF LoggedRow
        <4> QED BY <4>2 DEF row
      <3> QED BY <2>2, <3>1, <3>2
    <2>4. Size("audited") \in Nat /\ Size("deduped") \in Nat /\ Size("deduped") <= Size("audited")
      <3>1. report["audited"] \subseteq DOMAIN clLog /\ report["deduped"] \subseteq report["audited"]
        BY <1>1, <1>2, <2>1 DEF ReportFits, ReportAnswers, ReportChain, SettledStatements
      <3> QED BY <1>3, <1>4, <3>1
    <2>5. /\ TotalRejected(report["rejected"]) \in Nat /\ TotalRejected(report["reasons"]) \in Nat
          /\ TotalRejected(report["rejected"]) <= TotalRejected(report["reasons"])
      <3>1. \A r \in CryptoRejections :
               /\ report["rejected"][r] \in Nat /\ report["reasons"][r] \in Nat
               /\ report["rejected"][r] <= report["reasons"][r]
        BY <1>1, <2>1 DEF ReportFits, ReportRejections
      <3> QED BY <3>1 DEF TotalRejected, CryptoRejections
    <2> HIDE DEF checks, Size
    <2>6. ~checks.excluded => Size("audited") > Size("deduped") BY <2>2, <2>4
    <2>7. ~checks.rejected => TotalRejected(report["reasons"]) > TotalRejected(report["rejected"])
      BY <2>2, <2>5
    <2>8. gate_result(Size("audited")) = "blocked" => gate_result(Size("deduped")) = "blocked"
      <3> DEFINE m == Size("deduped")
                 n == Size("audited")
      <3>1. m \in Nat /\ n \in Nat /\ m <= n BY <2>4
      <3> HIDE DEF m, n
      <3>2. gate_result(n) = "blocked" => n < AuditMinimum BY DEF gate_result
      <3>3. n < AuditMinimum => m < AuditMinimum BY <3>1, CryptoAssumption
      <3> QED BY <3>2, <3>3 DEF gate_result, m, n
    <2> QED BY <2>3, <2>6, <2>7, <2>8 DEF checks
  <1>7. ASSUME "deduped rows" \in D
        PROVE  LET segments == _crypto_segment_table
               IN  /\ SumFunction([key \in DOMAIN segments |-> segments[key].deduped])
                          = Counted("deduped rows")
                   /\ Size("audited") <= Size("deduped rows")
                   /\ \A key \in DOMAIN segments :
                         /\ segments[key].settled <= segments[key].deduped
                         /\ segments[key].classification # "contaminated_by_duplicate_exposures"
    <2>1. {"rows", "settled rows", "audited"} \subseteq D BY <1>1, <1>7 DEF ReportFits, ReportOrder
    <2>2. /\ report["rows"] \subseteq DOMAIN clLog /\ report["deduped rows"] \subseteq DOMAIN clLog
          /\ report["settled rows"] \subseteq report["deduped rows"]
          /\ report["audited"] \subseteq report["deduped rows"]
      BY <1>1, <1>2, <1>7, <2>1
      DEF ReportFits, ReportAnswers, ReportChain, LogStatements, SettledStatements
    <2>3. Size("audited") <= Size("deduped rows") BY <1>4, <2>2
    <2> QED BY <1>1, <2>2, <2>3, SegmentsAddUp, SegmentsAreClean
  <1> HIDE DEF resolved
  <1> QED BY <1>5, <1>6, <1>7 DEF CryptoReportsAddUp, Counted, resolved

LEMMA CryptoKeeps ==
    ASSUME CryptoInv, clNext \/ UNCHANGED clVars
    PROVE  CryptoInv'
  <1>1. ASSUME NEW price \in CryptoPrices, CryptoTick(price) PROVE CryptoInv'
    BY <1>1, TickKeeps
  <1>2. ASSUME NEW c \in CryptoCycles, crypto_cycle(c) PROVE CryptoInv'
    <2>1. ASSUME NEW partial \in CryptoPrices,
                 collect_crypto_payload(c, normalize_coinbase_candles(partial))
          PROVE  CryptoInv'
      <3> DEFINE candles == normalize_coinbase_candles(partial)
      <3>1. /\ \A k \in candles : CandleFits(k, clClock)
            /\ \A k, l \in candles : k.close = l.close => k = l
        BY CandlesFit
      <3>2. collect_crypto_payload(c, candles) BY <2>1
      <3> HIDE DEF candles
      <3> QED BY <3>1, <3>2, CollectKeeps
    <2>2. CASE collect_crypto_payload(c, {}) BY <2>2, CollectKeeps
    <2>3. CASE ReadCryptoLog(c) BY <2>3, ReadLogKeeps
    <2>4. CASE log_crypto_predictions(c) BY <2>4, LogKeeps
    <2>5. CASE LockUnresolved(c) BY <2>5, LockKeeps
    <2>6. CASE settle_crypto_predictions(c) BY <2>6, SettleKeeps
    <2>7. CASE CryptoCycleDies(c) BY <2>7, CycleDiesKeeps
    <2> QED BY <1>2, <2>1, <2>2, <2>3, <2>4, <2>5, <2>6, <2>7 DEF crypto_cycle
  <1>3. CASE CryptoReporter BY <1>3, ReporterKeeps
  <1>4. CASE UNCHANGED clVars
    <2>1. UNCHANGED <<clClock, clPrices, clLog, clRejections, clCycle, clCycles>> /\ clReport' = clReport
      BY <1>4 DEF clVars
    <2>2. ReportFits(clReport) BY DEF CryptoInv
    <2> QED BY <2>1, <2>2, ReporterMoves
  <1> QED BY <1>1, <1>2, <1>3, <1>4 DEF clNext

LEMMA CryptoPropertiesFollow ==
    CryptoInv => clTypeOK /\ PredictionsAreHonest /\ CryptoRowsAreFinal /\ CryptoReportsAddUp
  <1> SUFFICES ASSUME CryptoInv
               PROVE  clTypeOK /\ PredictionsAreHonest /\ CryptoRowsAreFinal /\ CryptoReportsAddUp
    OBVIOUS
  <1>1. LogFits /\ ReportFits(clReport) BY DEF CryptoInv
  <1>2. ASSUME NEW i \in DOMAIN clLog
        PROVE  LET row == clLog[i]
               IN  /\ row.at \in 0..clClock /\ row.side \in {"UP", "DOWN"}
                   /\ row.state \in {"unresolved", "settled", "push"}
                   /\ row.entry = clPrices[row.candle.close \div CandleLength]
                   /\ row.candle.close <= row.at
                   /\ row.state # "unresolved" =>
                        /\ row.from >= row.settles
                        /\ row.outcome = OutcomeOf(row, row.price)
    <2> DEFINE row == clLog[i]
    <2>1. LoggedRow(row) BY <1>1 DEF LogFits
    <2> HIDE DEF row
    <2>2. /\ row.at \in 0..clClock /\ row.side \in {"UP", "DOWN"}
          /\ row.state \in {"unresolved", "settled", "push"}
          /\ row.entry = clPrices[row.candle.close \div CandleLength]
          /\ row.candle.close <= row.at
          /\ row.state # "unresolved" =>
                /\ row.from >= row.settles /\ row.outcome = OutcomeOf(row, row.price)
      BY <2>1 DEF LoggedRow
    <2> QED BY <2>2 DEF row
  <1>3. clTypeOK
    <2>1. \A c \in CryptoCycles : clCycle[c].held \subseteq DOMAIN clLog
      BY DEF CryptoInv, CycleFits
    <2> QED BY <1>2, <2>1 DEF clTypeOK, CryptoInv
  <1>4. PredictionsAreHonest BY <1>2 DEF PredictionsAreHonest
  <1>5. CryptoRowsAreFinal BY <1>1, ExposuresDiffer DEF CryptoRowsAreFinal, CryptoInv
  <1>6. CryptoReportsAddUp BY ReportsAddUp
  <1> QED BY <1>3, <1>4, <1>5, <1>6

-----------------------------------------------------------------------------
(* PaperLedger: what a row and its audit say. *)

LEMMA SetIsListed ==
    ASSUME NEW S, IsFiniteSet(S)
    PROVE  /\ SetToSeq(S) \in Seq(S)
           /\ \A i, j \in DOMAIN SetToSeq(S) : SetToSeq(S)[i] = SetToSeq(S)[j] => i = j
  <1> DEFINE n == Cardinality(S)
  <1>1. n \in Nat /\ ExistsBijection(1..n, S) BY FS_CardinalityType
  <1>2. \E f \in [1..n -> S] : IsInjective(f)
    BY <1>1 DEF ExistsBijection, Bijection, Injection, IsInjective
  <1>3. SetToSeq(S) \in [1..n -> S] /\ IsInjective(SetToSeq(S))
    BY <1>2 DEF SetToSeq
  <1> QED BY <1>1, <1>3 DEF IsInjective

\* The largest of some numbers
LEMMA LargestNumber ==
    ASSUME NEW S \in SUBSET Nat, S # {}, NEW n \in Nat, \A m \in S : m <= n
    PROVE  Max(S) \in S /\ \A m \in S : m <= Max(S)
  <1> DEFINE Bounds == {b \in Nat : \A m \in S : m <= b}
  <1>1. PICK b \in Bounds : \A c \in Bounds : b <= c
    <2>1. Bounds \in SUBSET Nat /\ Bounds # {} OBVIOUS
    <2> HIDE DEF Bounds
    <2> QED BY <2>1, LeastNumber
  <1>2. b \in S
    <2> SUFFICES ASSUME b \notin S PROVE FALSE
      OBVIOUS
    <2>1. \A m \in S : m \in Nat /\ b \in Nat /\ m <= b /\ m # b OBVIOUS
    <2>2. PICK m \in S : TRUE OBVIOUS
    <2>3. b - 1 \in Nat /\ \A k \in S : k <= b - 1 BY <2>1, <2>2
    <2>4. b - 1 \in Bounds BY <2>3
    <2>5. b <= b - 1 BY <1>1, <2>4
    <2> QED BY <2>5, <2>1, <2>2
  <1>3. \E x \in S : \A y \in S : x >= y BY <1>2
  <1> QED BY <1>3 DEF Max

-----------------------------------------------------------------------------
RowFields == {"quote", "time", "price", "update", "fetched", "seq", "state", "profit", "issue"}
LegFields == {"quote", "price", "update", "fetched", "seq", "status", "errors"}
PaperRowFits(row, i) ==
    /\ row = [x \in DOMAIN row |-> row[x]] /\ RowFields \subseteq DOMAIN row
    /\ row.quote \in Quotes /\ row.time \in 1..plClock /\ row.seq \in 1..i
PaperLogFits ==
    /\ \E S : plLog \in Seq(S)
    /\ Len(plLog) <= MaxPaperRows
    /\ \A i \in plIds : PaperRowFits(plLog[i], i)
    /\ \A i, j \in plIds : plLog[i].quote = plLog[j].quote /\ plLog[i].time = plLog[j].time => i = j
AuditFits(a) ==
    /\ a.id \in plIds /\ a.source \in {"file", "official"}
    /\ <<a.new, a.profit, a.issue>> = Decision(plLog[a.id], a.raw)

LegFits(leg) ==
    /\ leg = [x \in DOMAIN leg |-> leg[x]] /\ LegFields \subseteq DOMAIN leg
    /\ leg.quote \in Quotes
LoggerFits(r) ==
    /\ r = [x \in DOMAIN r |-> r[x]] /\ {"pc", "time", "legs", "rejects"} \subseteq DOMAIN r
    /\ r.pc # "idle" => r.time \in 1..plClock
    /\ IsFiniteSet(r.legs) /\ \A leg \in r.legs : LegFits(leg)
    /\ \A a, b \in r.legs : a.quote = b.quote => a = b
    /\ r.pc = "sequenced" => \A leg \in r.legs : leg.seq \in 1..(Len(plLog) + 1)
ImporterFits(r) ==
    /\ r = [x \in DOMAIN r |-> r[x]] /\ {"pc", "source", "held", "said"} \subseteq DOMAIN r
    /\ r.source \in {"file", "official"} /\ r.held \subseteq plIds

\* What a logger has read is still so when it inserts, if no other reads meanwhile.
BetweenReadAndInsert == {"extracted", "marked", "sequenced"}
ReadIsCurrent(r) ==
    /\ r.pc \in BetweenReadAndInsert => \A i \in plIds : plLog[i].time <= r.time
    /\ r.pc \in {"marked", "sequenced"} =>
          \A leg \in r.legs : leg.errors = {} =>
             \A i \in plIds : plLog[i].quote = leg.quote /\ plLog[i].time # r.time
                                 => plLog[i].fetched # leg.fetched
    /\ r.pc = "sequenced" =>
          \A leg \in r.legs : leg.errors = {} /\ leg.seq = LastSequence(leg.quote) + 1
OneReads ==
    /\ \A k, l \in PaperLoggers :
          {plLogger[k].pc, plLogger[l].pc} \subseteq BetweenReadAndInsert => k = l
    /\ \A l \in PaperLoggers : ReadIsCurrent(plLogger[l])

LedgerFits ==
    /\ plClock \in 1..MaxPaperClock /\ plOverlap \in BOOLEAN
    /\ PaperLogFits
    /\ \A a \in plAudit : AuditFits(a)
    /\ SnapshotsAreOrdered /\ AuditExplains
PaperInv ==
    /\ LedgerFits
    /\ plRun \in Configs \cup {0}
    /\ plLogger = [l \in PaperLoggers |-> plLogger[l]]
    /\ \A l \in PaperLoggers : LoggerFits(plLogger[l])
    /\ plImporter = [i \in PaperImporters |-> plImporter[i]]
    /\ \A i \in PaperImporters : ImporterFits(plImporter[i])
    /\ \A i, k \in PaperImporters : i # k => plImporter[i].held \cap plImporter[k].held = {}
    /\ ~plOverlap => OneReads

-----------------------------------------------------------------------------
LEMMA PaperStarts == plInit => PaperInv
  <1> SUFFICES ASSUME plInit PROVE PaperInv
    OBVIOUS
  <1>1. plLog \in Seq({}) /\ Len(plLog) = 0 /\ plIds = {} BY DEF plInit, plIds
  <1>2. LedgerFits
    <2>1. PaperLogFits BY <1>1, PaperAssumption DEF PaperLogFits
    <2>2. SnapshotsAreOrdered BY <1>1 DEF SnapshotsAreOrdered
    <2>3. AuditExplains BY <1>1 DEF AuditExplains
    <2>4. plClock \in 1..MaxPaperClock BY PaperAssumption DEF plInit
    <2> QED BY <2>1, <2>2, <2>3, <2>4 DEF LedgerFits, plInit
  <1>3. NoRecord.pc = "idle" /\ NoRecord.legs = {} BY DEF NoRecord
  <1>4. LoggerFits(NoRecord)
    <2>1. /\ NoRecord = [x \in DOMAIN NoRecord |-> NoRecord[x]]
          /\ {"pc", "time", "legs", "rejects"} \subseteq DOMAIN NoRecord
      BY DEF NoRecord
    <2> QED BY <1>3, <2>1, FS_EmptySet DEF LoggerFits
  <1>5. ImporterFits(NoImport) /\ NoImport.held = {} BY DEF NoImport, ImporterFits
  <1>6. OneReads BY <1>3 DEF plInit, OneReads, ReadIsCurrent, BetweenReadAndInsert
  <1> QED BY <1>2, <1>4, <1>5, <1>6 DEF plInit, PaperInv

\* The rows, the audit and what they say are as they were.
LEMMA LedgerStays ==
    ASSUME LedgerFits, plLog' = plLog, plAudit' = plAudit,
           plClock' \in 1..MaxPaperClock, plClock <= plClock',
           plOverlap' \in BOOLEAN, plOverlap => plOverlap'
    PROVE  LedgerFits'
  <1>1. plClock \in 1..MaxPaperClock /\ MaxPaperClock \in Nat BY PaperAssumption DEF LedgerFits
  <1>2. plIds' = plIds BY DEF plIds
  <1>3. ASSUME NEW row, NEW i, PaperRowFits(row, i) PROVE PaperRowFits(row, i)'
    <2>1. 1..plClock \subseteq 1..plClock' BY <1>1
    <2> QED BY <1>3, <2>1 DEF PaperRowFits
  <1>4. PaperLogFits'
    <2>1. PaperLogFits BY DEF LedgerFits
    <2>2. ASSUME NEW i \in plIds' PROVE PaperRowFits(plLog[i], i)'
      <3>1. PICK row : row = plLog[i] OBVIOUS
      <3>2. plLog'[i] = row /\ PaperRowFits(row, i) BY <1>2, <2>1, <3>1 DEF PaperLogFits
      <3>3. PaperRowFits(row, i)' BY <1>3, <3>2
      <3> QED BY <3>2, <3>3 DEF PaperRowFits
    <2> QED BY <1>2, <2>1, <2>2 DEF PaperLogFits
  <1>5. \A a \in plAudit' : AuditFits(a)'
    BY <1>2 DEF LedgerFits, AuditFits
  <1>6. SnapshotsAreOrdered'
    <2>1. \A q : {k \in plIds : plLog[k].quote = q} = {k \in plIds' : plLog'[k].quote = q}
      BY <1>2
    <2> DEFINE Rows(q) == {k \in plIds : plLog[k].quote = q}
    <2>2. \A i, j \in plIds : plLog[i].quote = plLog[j].quote /\ ~plOverlap' =>
             /\ plLog[i].seq <= Cardinality(Rows(plLog[i].quote))
             /\ i < j => /\ plLog[i].seq < plLog[j].seq
                        /\ plLog[i].time < plLog[j].time
                        /\ plLog[i].fetched # plLog[j].fetched
      BY DEF LedgerFits, SnapshotsAreOrdered
    <2>3. \A q : Rows(q) = {k \in plIds' : plLog'[k].quote = q} BY <2>1
    <2> HIDE DEF Rows
    <2> QED BY <1>2, <2>2, <2>3 DEF SnapshotsAreOrdered
  <1>7. AuditExplains' BY <1>2 DEF LedgerFits, AuditExplains
  <1> QED BY <1>4, <1>5, <1>6, <1>7 DEF LedgerFits

\* What the loggers and importers hold stays right while the clock goes on.
LEMMA HoldersStayFit ==
    ASSUME NEW r, plClock \in Nat, plClock' \in Nat, plClock <= plClock', plLog' = plLog
    PROVE  /\ LoggerFits(r) => LoggerFits(r)'
           /\ ImporterFits(r) => ImporterFits(r)'
           /\ ReadIsCurrent(r) => ReadIsCurrent(r)'
  <1>1. plIds' = plIds BY DEF plIds
  <1>2. 1..plClock \subseteq 1..plClock' OBVIOUS
  <1>3. LoggerFits(r) => LoggerFits(r)' BY <1>2 DEF LoggerFits, LegFits
  <1>4. ImporterFits(r) => ImporterFits(r)' BY <1>1 DEF ImporterFits
  <1>5. \A q : LastSequence(q) = LastSequence(q)' BY <1>1 DEF LastSequence
  <1>6. ReadIsCurrent(r) => ReadIsCurrent(r)' BY <1>1, <1>5 DEF ReadIsCurrent
  <1> QED BY <1>3, <1>4, <1>6

LEMMA LoggerMoves ==
    ASSUME PaperInv, NEW l \in PaperLoggers, NEW r, LoggerFits(r),
           plLogger' = [plLogger EXCEPT ![l] = r],
           UNCHANGED <<plClock, plRun, plLog, plAudit, plImporter>>,
           plOverlap' \in BOOLEAN, plOverlap => plOverlap',
           ~plOverlap' => /\ ReadIsCurrent(r)
                          /\ r.pc \in BetweenReadAndInsert =>
                                \A k \in PaperLoggers \ {l} : plLogger[k].pc \notin BetweenReadAndInsert
    PROVE  PaperInv'
  <1>1. plClock \in Nat /\ plClock' \in Nat /\ plClock <= plClock' /\ plClock' \in 1..MaxPaperClock
    BY PaperAssumption DEF PaperInv, LedgerFits
  <1>2. LedgerFits' BY <1>1, LedgerStays DEF PaperInv
  <1>3. /\ plLogger' = [k \in PaperLoggers |-> plLogger'[k]]
        /\ plLogger'[l] = r /\ \A k \in PaperLoggers \ {l} : plLogger'[k] = plLogger[k]
    BY DEF PaperInv
  <1>4. ASSUME NEW k \in PaperLoggers PROVE LoggerFits(plLogger[k])'
    <2>1. \A x : LoggerFits(x) => LoggerFits(x)' BY <1>1, HoldersStayFit
    <2>2. LoggerFits(plLogger'[k]) BY <1>3 DEF PaperInv
    <2> QED BY <2>1, <2>2 DEF LoggerFits, LegFits
  <1>5. ASSUME NEW i \in PaperImporters PROVE ImporterFits(plImporter[i])'
    BY DEF PaperInv, ImporterFits, plIds
  <1>6. ASSUME ~plOverlap' PROVE OneReads'
    <2>1. \A k \in PaperLoggers : ReadIsCurrent(plLogger'[k])
      BY <1>3, <1>6 DEF PaperInv, OneReads
    <2>2. ASSUME NEW k \in PaperLoggers PROVE ReadIsCurrent(plLogger[k])'
      <3>1. ReadIsCurrent(plLogger'[k]) BY <2>1
      <3>2. plIds' = plIds BY DEF plIds
      <3>3. \A q : LastSequence(q) = LastSequence(q)' BY <3>2 DEF LastSequence
      <3> QED BY <3>1, <3>2, <3>3 DEF ReadIsCurrent
    <2>3. ASSUME NEW j \in PaperLoggers, NEW k \in PaperLoggers,
                 {plLogger'[j].pc, plLogger'[k].pc} \subseteq BetweenReadAndInsert
          PROVE  j = k
      BY <1>3, <1>6, <2>3 DEF PaperInv, OneReads
    <2> QED BY <2>2, <2>3 DEF OneReads
  <1> QED BY <1>2, <1>3, <1>4, <1>5, <1>6 DEF PaperInv

LEMMA ImporterMoves ==
    ASSUME PaperInv, NEW i \in PaperImporters, NEW r, ImporterFits(r),
           plImporter' = [plImporter EXCEPT ![i] = r],
           \A k \in PaperImporters \ {i} : r.held \cap plImporter[k].held = {},
           UNCHANGED <<plClock, plRun, plLog, plAudit, plLogger, plOverlap>>
    PROVE  PaperInv'
  <1>1. plClock \in Nat /\ plClock' \in Nat /\ plClock <= plClock' /\ plClock' \in 1..MaxPaperClock
    BY PaperAssumption DEF PaperInv, LedgerFits
  <1>2. LedgerFits' BY <1>1, LedgerStays DEF PaperInv, LedgerFits
  <1>3. /\ plImporter' = [k \in PaperImporters |-> plImporter'[k]]
        /\ plImporter'[i] = r /\ \A k \in PaperImporters \ {i} : plImporter'[k] = plImporter[k]
    BY DEF PaperInv
  <1>4. ASSUME NEW k \in PaperImporters PROVE ImporterFits(plImporter[k])'
    <2>1. ImporterFits(plImporter'[k]) BY <1>3 DEF PaperInv
    <2> QED BY <2>1 DEF ImporterFits, plIds
  <1>5. \A j, k \in PaperImporters : j # k => plImporter'[j].held \cap plImporter'[k].held = {}
    BY <1>3 DEF PaperInv
  <1>6. ASSUME NEW l \in PaperLoggers PROVE LoggerFits(plLogger[l])'
    BY DEF PaperInv, LoggerFits, LegFits
  <1>7. ~plOverlap' => OneReads'
    <2>1. plIds' = plIds BY DEF plIds
    <2>2. \A q : LastSequence(q) = LastSequence(q)' BY <2>1 DEF LastSequence
    <2> QED BY <2>1, <2>2 DEF PaperInv, OneReads, ReadIsCurrent
  <1> QED BY <1>2, <1>3, <1>4, <1>5, <1>6, <1>7 DEF PaperInv

LEMMA NothingHeld ==
    ASSUME PaperInv
    PROVE  /\ LoggerFits(NoRecord) /\ ReadIsCurrent(NoRecord) /\ NoRecord.pc = "idle"
           /\ ImporterFits(NoImport) /\ NoImport.held = {}
  <1>1. /\ NoRecord = [x \in DOMAIN NoRecord |-> NoRecord[x]]
        /\ {"pc", "time", "legs", "rejects"} \subseteq DOMAIN NoRecord
        /\ NoRecord.pc = "idle" /\ NoRecord.legs = {}
    BY DEF NoRecord
  <1>2. LoggerFits(NoRecord) BY <1>1, FS_EmptySet DEF LoggerFits
  <1>3. ReadIsCurrent(NoRecord) BY <1>1 DEF ReadIsCurrent, BetweenReadAndInsert
  <1>4. ImporterFits(NoImport) /\ NoImport.held = {} BY DEF NoImport, ImporterFits
  <1> QED BY <1>1, <1>2, <1>3, <1>4

\* Time passes, and runs are started and reported on.
LEMMA RestKeeps ==
    ASSUME PaperInv, plClock' \in 1..MaxPaperClock, plClock <= plClock',
           plRun' \in Configs \cup {0},
           UNCHANGED <<plLog, plAudit, plLogger, plImporter, plOverlap>>
    PROVE  PaperInv'
  <1>1. plClock \in Nat /\ plClock' \in Nat BY PaperAssumption DEF PaperInv, LedgerFits
  <1>2. LedgerFits' BY LedgerStays DEF PaperInv, LedgerFits
  <1>3. ASSUME NEW r
        PROVE  /\ LoggerFits(r) => LoggerFits(r)'
               /\ ImporterFits(r) => ImporterFits(r)'
               /\ ReadIsCurrent(r) => ReadIsCurrent(r)'
    BY <1>1, HoldersStayFit
  <1>4. ASSUME NEW l \in PaperLoggers PROVE LoggerFits(plLogger[l])'
    <2>1. PICK r : r = plLogger[l] OBVIOUS
    <2>2. LoggerFits(r)' /\ plLogger'[l] = r BY <1>3, <2>1 DEF PaperInv
    <2> QED BY <2>2 DEF LoggerFits, LegFits
  <1>5. ASSUME NEW i \in PaperImporters PROVE ImporterFits(plImporter[i])'
    <2>1. PICK r : r = plImporter[i] OBVIOUS
    <2>2. ImporterFits(r)' /\ plImporter'[i] = r BY <1>3, <2>1 DEF PaperInv
    <2> QED BY <2>2 DEF ImporterFits
  <1>6. ASSUME ~plOverlap' PROVE OneReads'
    <2>1. OneReads BY <1>6 DEF PaperInv
    <2>2. ASSUME NEW l \in PaperLoggers PROVE ReadIsCurrent(plLogger[l])'
      <3>1. PICK r : r = plLogger[l] OBVIOUS
      <3>2. ReadIsCurrent(r)' /\ plLogger'[l] = r BY <1>3, <2>1, <3>1 DEF OneReads
      <3> QED BY <3>2 DEF ReadIsCurrent
    <2> QED BY <2>1, <2>2 DEF OneReads
  <1> QED BY <1>2, <1>4, <1>5, <1>6 DEF PaperInv

LEMMA BeginLogKeeps ==
    ASSUME PaperInv, NEW l \in PaperLoggers, BeginLog(l)
    PROVE  PaperInv'
  <1>1. PICK S \in Payloads, price \in Prices, update \in Updates, fetched \in 0..plClock,
             status \in LegStatuses :
           plLogger' = [plLogger EXCEPT ![l] =
              [pc |-> "extracted", time |-> plClock, rejects |-> {},
               legs |-> {BuildLeg(q, price, update, fetched, status, plClock) : q \in S}]]
    BY DEF BeginLog
  <1> DEFINE leg(q) == BuildLeg(q, price, update, fetched, status, plClock)
             legs == {leg(q) : q \in S}
             r == [pc |-> "extracted", time |-> plClock, rejects |-> {}, legs |-> legs]
  <1>2. IsFiniteSet(S) /\ S \subseteq Quotes BY PaperAssumption
  <1>3. \A q \in S : LegFits(leg(q)) /\ leg(q).quote = q
    BY <1>2 DEF BuildLeg, LegFits, LegFields
  <1> HIDE DEF leg
  <1>4. IsFiniteSet(legs)
    <2> DEFINE f == [e \in legs |-> e.quote]
    <2>1. f \in Injection(legs, S) BY <1>3 DEF Injection, IsInjective
    <2> QED BY <1>2, <2>1, FS_Injection
  <1>5. /\ \A e \in legs : LegFits(e)
        /\ \A a, b \in legs : a.quote = b.quote => a = b
    BY <1>3
  <1> HIDE DEF legs
  <1>6. /\ r = [x \in DOMAIN r |-> r[x]] /\ DOMAIN r = {"pc", "time", "rejects", "legs"}
        /\ r.pc = "extracted" /\ r.time = plClock /\ r.legs = legs
    OBVIOUS
  <1>7. plLogger' = [plLogger EXCEPT ![l] = r] BY <1>1 DEF legs, leg
  <1> HIDE DEF r
  <1>8. plClock \in 1..plClock BY DEF PaperInv, LedgerFits
  <1>9. LoggerFits(r) BY <1>4, <1>5, <1>6, <1>8 DEF LoggerFits
  <1>10. ReadIsCurrent(r)
    <2>1. \A i \in plIds : plLog[i].time \in 1..plClock
      BY DEF PaperInv, LedgerFits, PaperLogFits, PaperRowFits
    <2>2. \A i \in plIds : plLog[i].time <= plClock BY <2>1
    <2> QED BY <1>6, <2>2 DEF ReadIsCurrent
  <1>11. /\ plOverlap' = (plOverlap \/ \E k \in PaperLoggers : plLogger[k].pc \in BetweenReadAndInsert)
         /\ UNCHANGED <<plClock, plRun, plLog, plAudit, plImporter>>
    BY DEF BeginLog, BetweenReadAndInsert
  <1>12. plOverlap' \in BOOLEAN /\ (plOverlap => plOverlap')
    BY <1>11 DEF PaperInv, LedgerFits
  <1>13. ~plOverlap' =>
            \A k \in PaperLoggers \ {l} : plLogger[k].pc \notin BetweenReadAndInsert
    BY <1>11
  <1> QED BY <1>7, <1>9, <1>10, <1>11, <1>12, <1>13, LoggerMoves

\* The values of the only logger that reads
LEMMA OthersDoNotRead ==
    ASSUME PaperInv, NEW l \in PaperLoggers, plLogger[l].pc \in BetweenReadAndInsert, ~plOverlap
    PROVE  \A k \in PaperLoggers \ {l} : plLogger[k].pc \notin BetweenReadAndInsert
  BY DEF PaperInv, OneReads

LEMMA MarkKeeps ==
    ASSUME PaperInv, NEW l \in PaperLoggers, MarkUnchanged(l)
    PROVE  PaperInv'
  <1> DEFINE old == plLogger[l]
             t == old.time
             mark(leg) == IF leg.errors = {} /\ \E i \in plIds : Repeats(leg, t, plLog[i])
                          THEN [leg EXCEPT !.errors = {"unchanged_repeat_snapshot"}] ELSE leg
             legs == {mark(leg) : leg \in old.legs}
             r == [old EXCEPT !.pc = "marked", !.legs = legs]
  <1>1. LoggerFits(old) /\ old.pc = "extracted" BY DEF PaperInv, MarkUnchanged
  <1>2. ASSUME NEW leg \in old.legs
        PROVE  /\ LegFits(mark(leg)) /\ mark(leg).quote = leg.quote
               /\ mark(leg).errors = {} =>
                     \A i \in plIds : plLog[i].quote = mark(leg).quote /\ plLog[i].time # t
                                         => plLog[i].fetched # mark(leg).fetched
    <2>1. LegFits(leg) BY <1>1 DEF LoggerFits
    <2>2. CASE leg.errors = {} /\ \E i \in plIds : Repeats(leg, t, plLog[i])
      <3> DEFINE m == [leg EXCEPT !.errors = {"unchanged_repeat_snapshot"}]
      <3>1. /\ m = [x \in DOMAIN m |-> m[x]] /\ DOMAIN m = DOMAIN leg
            /\ m.quote = leg.quote /\ m.errors = {"unchanged_repeat_snapshot"}
        BY <2>1 DEF LegFits, LegFields
      <3>2. mark(leg) = m BY <2>2
      <3> HIDE DEF m
      <3> QED BY <2>1, <3>1, <3>2 DEF LegFits
    <2>3. CASE ~(leg.errors = {} /\ \E i \in plIds : Repeats(leg, t, plLog[i]))
      <3>1. mark(leg) = leg BY <2>3
      <3> QED BY <2>1, <2>3, <3>1 DEF Repeats
    <2> QED BY <2>2, <2>3
  <1>3. plLogger' = [plLogger EXCEPT ![l] = r]
    BY DEF MarkUnchanged, PaperInv
  <1> HIDE DEF mark
  <1>4. IsFiniteSet(legs)
    <2> DEFINE Of(e) == CHOOSE leg \in old.legs : mark(leg) = e
               f == [e \in legs |-> Of(e)]
    <2>1. \A e \in legs : Of(e) \in old.legs /\ mark(Of(e)) = e OBVIOUS
    <2> HIDE DEF Of
    <2>2. f \in Injection(legs, old.legs) BY <2>1 DEF Injection, IsInjective
    <2> QED BY <1>1, <2>2, FS_Injection DEF LoggerFits
  <1>5. /\ \A e \in legs : LegFits(e)
        /\ \A a, b \in legs : a.quote = b.quote => a = b
        /\ \A e \in legs : e.errors = {} =>
              \A i \in plIds : plLog[i].quote = e.quote /\ plLog[i].time # t
                                  => plLog[i].fetched # e.fetched
    BY <1>1, <1>2 DEF LoggerFits
  <1> HIDE DEF legs
  <1>6. /\ r = [x \in DOMAIN r |-> r[x]] /\ DOMAIN r = DOMAIN old
        /\ r.pc = "marked" /\ r.time = t /\ r.legs = legs
    BY <1>1 DEF LoggerFits
  <1> HIDE DEF r
  <1>7. LoggerFits(r) BY <1>1, <1>4, <1>5, <1>6 DEF LoggerFits
  <1>8. ASSUME ~plOverlap PROVE ReadIsCurrent(r)
    <2>1. ReadIsCurrent(old) BY <1>8 DEF PaperInv, OneReads
    <2> QED BY <1>1, <1>5, <1>6, <2>1 DEF ReadIsCurrent, BetweenReadAndInsert
  <1>9. UNCHANGED <<plClock, plRun, plLog, plAudit, plImporter>> /\ plOverlap' = plOverlap
    BY DEF MarkUnchanged
  <1>10. plOverlap' \in BOOLEAN BY <1>9 DEF PaperInv, LedgerFits
  <1>11. ~plOverlap => \A k \in PaperLoggers \ {l} : plLogger[k].pc \notin BetweenReadAndInsert
    BY <1>1, OthersDoNotRead DEF BetweenReadAndInsert
  <1> QED BY <1>3, <1>7, <1>8, <1>9, <1>10, <1>11, LoggerMoves

\* The last sequence number of a quote, and how many rows it has
LEMMA SequencesCount ==
    ASSUME PaperLogFits, NEW q
    PROVE  /\ LastSequence(q) \in 0..Len(plLog)
           /\ \A i \in plIds : plLog[i].quote = q => plLog[i].seq <= LastSequence(q)
           /\ LastSequence(q) # 0 => \E i \in plIds : plLog[i].quote = q /\ plLog[i].seq = LastSequence(q)
           /\ IsFiniteSet({k \in plIds : plLog[k].quote = q})
           /\ Cardinality({k \in plIds : plLog[k].quote = q}) \in Nat
  <1> DEFINE S == {plLog[i].seq : i \in {j \in plIds : plLog[j].quote = q}}
             n == Len(plLog)
  <1>1. n \in Nat /\ plIds = 1..n
    <2>1. PICK T : plLog \in Seq(T) BY DEF PaperLogFits
    <2> QED BY <2>1 DEF plIds
  <1>2. \A m \in S : m \in 1..n
    <2>1. \A i \in plIds : plLog[i].seq \in 1..i BY DEF PaperLogFits, PaperRowFits
    <2>2. \A i \in 1..n : 1..i \subseteq 1..n BY <1>1
    <2> QED BY <1>1, <2>1, <2>2
  <1>3. LastSequence(q) = IF S = {} THEN 0 ELSE Max(S) BY DEF LastSequence
  <1>4. IsFiniteSet({k \in plIds : plLog[k].quote = q})
    <2>1. IsFiniteSet(1..n) BY <1>1, FS_Interval
    <2> QED BY <1>1, <2>1, FS_Subset
  <1>5. \A i \in plIds : plLog[i].quote = q => plLog[i].seq \in S OBVIOUS
  <1>6. \A m \in S : \E i \in plIds : plLog[i].quote = q /\ plLog[i].seq = m OBVIOUS
  <1> HIDE DEF S, n
  <1>7. CASE S = {} BY <1>1, <1>3, <1>4, <1>5, <1>7, FS_CardinalityType DEF n
  <1>8. CASE S # {}
    <2>1. Max(S) \in S /\ \A m \in S : m <= Max(S)
      <3>1. S \in SUBSET Nat /\ \A m \in S : m <= n BY <1>1, <1>2
      <3> QED BY <1>1, <1>8, <3>1, LargestNumber
    <2>2. Max(S) \in 0..n BY <1>1, <1>2, <2>1
    <2> QED BY <1>3, <1>4, <1>5, <1>6, <1>8, <2>1, <2>2, FS_CardinalityType DEF n
  <1> QED BY <1>7, <1>8

LEMMA AssignKeeps ==
    ASSUME PaperInv, NEW l \in PaperLoggers, AssignSequences(l)
    PROVE  PaperInv'
  <1> DEFINE old == plLogger[l]
             valid == {leg \in old.legs : leg.errors = {}}
             next(leg) == LastSequence(leg.quote) + 1
             numbered(leg) == [leg EXCEPT !.seq = next(leg)]
             legs == {numbered(leg) : leg \in valid}
             r == [old EXCEPT !.pc = "sequenced", !.legs = legs, !.rejects = old.legs \ valid]
  <1>1. LoggerFits(old) /\ old.pc = "marked" BY DEF PaperInv, AssignSequences
  <1>2. plLogger' = [plLogger EXCEPT ![l] = r]
    BY DEF AssignSequences, PaperInv
  <1>3. \A leg \in valid : leg \in old.legs /\ leg.errors = {} OBVIOUS
  <1> HIDE DEF valid
  <1>4. ASSUME NEW leg \in valid
        PROVE  /\ LegFits(numbered(leg)) /\ numbered(leg).quote = leg.quote
               /\ numbered(leg).errors = {} /\ numbered(leg).fetched = leg.fetched
               /\ numbered(leg).seq = LastSequence(leg.quote) + 1
               /\ numbered(leg).seq \in 1..(Len(plLog) + 1)
    <2>1. LegFits(leg) /\ leg.errors = {} BY <1>1, <1>3 DEF LoggerFits
    <2>2. next(leg) \in 1..(Len(plLog) + 1)
      <3>1. LastSequence(leg.quote) \in 0..Len(plLog)
        BY SequencesCount DEF PaperInv, LedgerFits
      <3>2. Len(plLog) \in Nat BY DEF PaperInv, LedgerFits, PaperLogFits
      <3> QED BY <3>1, <3>2
    <2> DEFINE k == next(leg)
               m == [leg EXCEPT !.seq = k]
    <2>3. numbered(leg) = m /\ k = LastSequence(leg.quote) + 1 OBVIOUS
    <2> HIDE DEF k, numbered
    <2>4. /\ m = [x \in DOMAIN m |-> m[x]] /\ DOMAIN m = DOMAIN leg
          /\ m.quote = leg.quote /\ m.errors = leg.errors /\ m.fetched = leg.fetched
          /\ m.seq = k
      BY <2>1 DEF LegFits, LegFields
    <2>5. k \in 1..(Len(plLog) + 1) BY <2>2 DEF k
    <2> HIDE DEF m
    <2> QED BY <2>1, <2>3, <2>4, <2>5 DEF LegFits
  <1> HIDE DEF numbered
  <1>5. IsFiniteSet(legs)
    <2> DEFINE Of(e) == CHOOSE leg \in valid : numbered(leg) = e
               f == [e \in legs |-> Of(e)]
    <2>1. \A e \in legs : Of(e) \in old.legs /\ numbered(Of(e)) = e BY <1>3
    <2> HIDE DEF Of
    <2>2. f \in Injection(legs, old.legs) BY <2>1 DEF Injection, IsInjective
    <2> QED BY <1>1, <2>2, FS_Injection DEF LoggerFits
  <1>6. /\ \A e \in legs : /\ LegFits(e) /\ e.errors = {} /\ e.seq = LastSequence(e.quote) + 1
                           /\ e.seq \in 1..(Len(plLog) + 1)
        /\ \A e \in legs : \E leg \in old.legs : leg.errors = {} /\ e.quote = leg.quote
                                                 /\ e.fetched = leg.fetched
        /\ \A a, b \in legs : a.quote = b.quote => a = b
    BY <1>1, <1>3, <1>4 DEF LoggerFits
  <1> HIDE DEF legs
  <1>7. /\ r = [x \in DOMAIN r |-> r[x]] /\ DOMAIN r = DOMAIN old
        /\ r.pc = "sequenced" /\ r.time = old.time /\ r.legs = legs
    BY <1>1 DEF LoggerFits
  <1> HIDE DEF r
  <1>8. LoggerFits(r) BY <1>1, <1>5, <1>6, <1>7 DEF LoggerFits
  <1>9. ASSUME ~plOverlap PROVE ReadIsCurrent(r)
    <2>1. ReadIsCurrent(old) BY <1>9 DEF PaperInv, OneReads
    <2>2. \A leg \in r.legs : leg.errors = {} =>
             \A i \in plIds : plLog[i].quote = leg.quote /\ plLog[i].time # r.time
                                 => plLog[i].fetched # leg.fetched
      BY <1>1, <1>6, <1>7, <2>1 DEF ReadIsCurrent
    <2> QED BY <1>1, <1>6, <1>7, <2>1, <2>2 DEF ReadIsCurrent, BetweenReadAndInsert
  <1>10. UNCHANGED <<plClock, plRun, plLog, plAudit, plImporter>> /\ plOverlap' = plOverlap
    BY DEF AssignSequences
  <1>11. plOverlap' \in BOOLEAN BY <1>10 DEF PaperInv, LedgerFits
  <1>12. ~plOverlap => \A k \in PaperLoggers \ {l} : plLogger[k].pc \notin BetweenReadAndInsert
    BY <1>1, OthersDoNotRead DEF BetweenReadAndInsert
  <1> QED BY <1>2, <1>8, <1>9, <1>10, <1>11, <1>12, LoggerMoves

LEMMA LoggerEndsKeeps ==
    ASSUME PaperInv, NEW l \in PaperLoggers, InsertRejections(l) \/ LoggerDies(l)
    PROVE  PaperInv'
  <1>1. /\ plLogger' = [plLogger EXCEPT ![l] = NoRecord] /\ plOverlap' = plOverlap
        /\ UNCHANGED <<plClock, plRun, plLog, plAudit, plImporter>>
    BY DEF InsertRejections, LoggerDies
  <1>2. plOverlap' \in BOOLEAN BY <1>1 DEF PaperInv, LedgerFits
  <1>3. NoRecord.pc \notin BetweenReadAndInsert BY NothingHeld DEF BetweenReadAndInsert
  <1> QED BY <1>1, <1>2, <1>3, NothingHeld, LoggerMoves

-----------------------------------------------------------------------------
\* A row a logger inserts, and the rows it inserts together
NewRowFits(row, legs, t) ==
    /\ row = [x \in DOMAIN row |-> row[x]] /\ RowFields \subseteq DOMAIN row
    /\ row.quote \in Quotes /\ row.time = t /\ row.seq \in 1..(Len(plLog) + 1)
    /\ row.state = "unresolved" /\ row.issue = ""
    /\ \A i \in plIds : ~(plLog[i].quote = row.quote /\ plLog[i].time = t)
    /\ \E leg \in legs : /\ row.quote = leg.quote /\ row.fetched = leg.fetched
                         /\ row.seq = leg.seq
NewRowsFit(s, legs, t) ==
    /\ \E R : s \in Seq(R)
    /\ \A k \in DOMAIN s : NewRowFits(s[k], legs, t)
    /\ \A k, m \in DOMAIN s : s[k].quote = s[m].quote => k = m

\* The rows a logger inserts are of quotes that have none of its time.
LEMMA InsertedRowsFit ==
    ASSUME PaperInv, NEW r, LoggerFits(r), r.pc = "sequenced"
    PROVE  NewRowsFit(NewRows(r.legs, r.time), r.legs, r.time)
  <1> DEFINE fresh == {leg \in r.legs : \A i \in plIds :
                          ~(plLog[i].quote = leg.quote /\ plLog[i].time = r.time)}
             row(leg) == [quote |-> leg.quote, time |-> r.time, price |-> leg.price,
                          update |-> leg.update, fetched |-> leg.fetched, seq |-> leg.seq,
                          state |-> "unresolved", profit |-> NoProfit, issue |-> ""]
             R == {row(leg) : leg \in fresh}
             s == SetToSeq(R)
  <1>1. NewRows(r.legs, r.time) = s BY DEF NewRows
  <1>2. \A leg \in fresh : leg \in r.legs /\ \A i \in plIds :
                          ~(plLog[i].quote = leg.quote /\ plLog[i].time = r.time)
    OBVIOUS
  <1> HIDE DEF fresh
  <1>3. \A leg \in fresh :
           /\ row(leg) = [x \in DOMAIN row(leg) |-> row(leg)[x]] /\ DOMAIN row(leg) = RowFields
           /\ row(leg).quote = leg.quote /\ row(leg).time = r.time
           /\ row(leg).fetched = leg.fetched /\ row(leg).seq = leg.seq
           /\ row(leg).state = "unresolved" /\ row(leg).issue = ""
    BY DEF RowFields
  <1> HIDE DEF row
  <1>4. \A e \in R : \E leg \in fresh : e = row(leg) OBVIOUS
  <1>5. ASSUME NEW a \in R, NEW b \in R, a.quote = b.quote PROVE a = b
    <2>1. PICK p \in fresh : a = row(p) BY <1>4
    <2>2. PICK q \in fresh : b = row(q) BY <1>4
    <2>3. p.quote = q.quote BY <1>3, <1>5, <2>1, <2>2
    <2>4. p = q BY <1>2, <2>3 DEF LoggerFits
    <2> QED BY <2>1, <2>2, <2>4
  <1>6. IsFiniteSet(R)
    <2> DEFINE g == [e \in R |-> CHOOSE leg \in fresh : e = row(leg)]
    <2>1. g \in Injection(R, r.legs)
      <3>1. \A e \in R : g[e] \in fresh /\ e = row(g[e]) BY <1>4
      <3>2. g \in [R -> r.legs] BY <1>2, <3>1
      <3> HIDE DEF g
      <3> QED BY <3>1, <3>2 DEF Injection, IsInjective
    <2> QED BY <2>1, FS_Injection DEF LoggerFits
  <1>7. \A e \in R : NewRowFits(e, r.legs, r.time)
    <2> TAKE e \in R
    <2>1. PICK leg \in fresh : e = row(leg) BY <1>4
    <2>2. leg \in r.legs /\ leg.quote \in Quotes /\ leg.seq \in 1..(Len(plLog) + 1)
      BY <1>2 DEF LoggerFits, LegFits
    <2>3. /\ e = [x \in DOMAIN e |-> e[x]] /\ RowFields \subseteq DOMAIN e
          /\ e.quote = leg.quote /\ e.time = r.time /\ e.fetched = leg.fetched
          /\ e.seq = leg.seq /\ e.state = "unresolved" /\ e.issue = ""
      BY <1>3, <2>1
    <2>4. \A i \in plIds : ~(plLog[i].quote = e.quote /\ plLog[i].time = r.time)
      BY <1>2, <2>3
    <2>5. \E q \in r.legs : e.quote = q.quote /\ e.fetched = q.fetched /\ e.seq = q.seq
      BY <2>2, <2>3
    <2> QED BY <2>2, <2>3, <2>4, <2>5 DEF NewRowFits
  <1> HIDE DEF R
  <1>8. s \in Seq(R) /\ \A i, j \in DOMAIN s : s[i] = s[j] => i = j
    BY <1>6, SetIsListed
  <1>9. \A k \in DOMAIN s : s[k] \in R BY <1>8, ElementsBelong
  <1> HIDE DEF s
  <1>10. \A k \in DOMAIN s : NewRowFits(s[k], r.legs, r.time) BY <1>7, <1>9
  <1>11. \A k, m \in DOMAIN s : s[k].quote = s[m].quote => k = m
    BY <1>5, <1>8, <1>9
  <1>12. NewRowsFit(s, r.legs, r.time) BY <1>8, <1>10, <1>11 DEF NewRowsFit
  <1> QED BY <1>1, <1>12

\* The log with the rows appended to it
NewIds == plIds' \ plIds
LogHasGrown(legs, t) ==
    /\ \E T : plLog' \in Seq(T)
    /\ Len(plLog') \in Nat /\ Len(plLog) <= Len(plLog')
    /\ plIds \subseteq plIds' /\ \A i \in plIds : plLog'[i] = plLog[i]
    /\ \A i \in NewIds : i \in Nat /\ i > Len(plLog) /\ NewRowFits(plLog'[i], legs, t)
    /\ \A i, j \in NewIds : plLog'[i].quote = plLog'[j].quote => i = j

LEMMA LogIsInOrder ==
    ASSUME PaperLogFits
    PROVE  Len(plLog) \in Nat /\ plIds = 1..Len(plLog) /\ plIds = DOMAIN plLog
  <1>1. PICK T : plLog \in Seq(T) BY DEF PaperLogFits
  <1> QED BY <1>1 DEF plIds

LEMMA RowsFit ==
    ASSUME PaperLogFits
    PROVE  \A i \in plIds : /\ i \in Nat /\ plLog[i].quote \in Quotes
                            /\ plLog[i].time \in 1..plClock /\ plLog[i].seq \in 1..i
  <1>1. \A i \in plIds : i \in Nat BY LogIsInOrder
  <1>2. \A i \in plIds : PaperRowFits(plLog[i], i) BY DEF PaperLogFits
  <1> QED BY <1>1, <1>2 DEF PaperRowFits

LEMMA LogGrows ==
    ASSUME PaperLogFits, NEW s, NEW legs, NEW t, NewRowsFit(s, legs, t), plLog' = plLog \o s
    PROVE  LogHasGrown(legs, t)
  <1>1. PICK S : plLog \in Seq(S) BY DEF PaperLogFits
  <1>2. PICK R : s \in Seq(R) BY DEF NewRowsFit
  <1> DEFINE n == Len(plLog)
  <1>3. /\ plLog' \in Seq(S \cup R) /\ DOMAIN plLog \subseteq DOMAIN plLog'
        /\ \A i \in DOMAIN plLog : plLog'[i] = plLog[i]
        /\ \A i \in DOMAIN plLog' :
              i \in DOMAIN plLog \/ (i - n \in DOMAIN s /\ plLog'[i] = s[i - n])
    BY <1>1, <1>2, TwoJoined
  <1>4. /\ n \in Nat /\ plIds = 1..n /\ plIds = DOMAIN plLog BY LogIsInOrder
  <1>5. plIds' = 1..Len(plLog') /\ plIds' = DOMAIN plLog' /\ Len(plLog') \in Nat
    BY <1>3 DEF plIds
  <1>6. plIds \subseteq plIds' /\ n <= Len(plLog') BY <1>1, <1>2, <1>3, <1>4, <1>5
  <1> HIDE DEF n
  <1>7. \A i \in NewIds : i \in Nat /\ i > n /\ i - n \in DOMAIN s /\ plLog'[i] = s[i - n]
    BY <1>3, <1>4, <1>5 DEF NewIds
  <1>8. ASSUME NEW i \in NewIds PROVE NewRowFits(plLog'[i], legs, t)
    <2>1. i - n \in DOMAIN s /\ plLog'[i] = s[i - n] BY <1>7
    <2>2. PICK row : row = s[i - n] OBVIOUS
    <2>3. NewRowFits(row, legs, t) BY <2>1, <2>2 DEF NewRowsFit
    <2>4. plLog'[i] = row BY <2>1, <2>2
    <2> QED BY <2>3, <2>4
  <1>9. ASSUME NEW i \in NewIds, NEW j \in NewIds, plLog'[i].quote = plLog'[j].quote PROVE i = j
    <2>1. /\ i \in Nat /\ j \in Nat /\ i - n \in DOMAIN s /\ j - n \in DOMAIN s
          /\ plLog'[i] = s[i - n] /\ plLog'[j] = s[j - n]
      BY <1>7
    <2>2. \A k, m \in DOMAIN s : s[k].quote = s[m].quote => k = m BY DEF NewRowsFit
    <2>3. i - n = j - n BY <1>9, <2>1, <2>2
    <2> QED BY <1>4, <2>1, <2>3
  <1>10. \A i \in plIds : plLog'[i] = plLog[i] BY <1>3, <1>4
  <1> QED BY <1>3, <1>5, <1>6, <1>7, <1>8, <1>9, <1>10 DEF LogHasGrown, n

LEMMA GrownLogFits ==
    ASSUME LedgerFits, NEW legs, NEW t \in 1..plClock, LogHasGrown(legs, t),
           Len(plLog') <= MaxPaperRows, plClock' = plClock
    PROVE  PaperLogFits'
  <1>1. PaperLogFits /\ Len(plLog) \in Nat BY LogIsInOrder DEF LedgerFits
  <1>2. \A i \in plIds : plLog'[i] = plLog[i] BY DEF LogHasGrown
  <1>3. ASSUME NEW i \in plIds' PROVE PaperRowFits(plLog[i], i)'
    <2>1. CASE i \in plIds
      <3>1. PaperRowFits(plLog[i], i) /\ plLog'[i] = plLog[i]
        BY <1>1, <1>2, <2>1 DEF PaperLogFits
      <3> QED BY <3>1 DEF PaperRowFits
    <2>2. CASE i \notin plIds
      <3> DEFINE row == plLog'[i]
      <3>1. i \in NewIds BY <2>2 DEF NewIds
      <3>2. i \in Nat /\ i > Len(plLog) /\ NewRowFits(row, legs, t) BY <3>1 DEF LogHasGrown
      <3>3. 1..(Len(plLog) + 1) \subseteq 1..i BY <1>1, <3>2
      <3>4. /\ row = [x \in DOMAIN row |-> row[x]] /\ RowFields \subseteq DOMAIN row
            /\ row.quote \in Quotes /\ row.time = t /\ row.seq \in 1..(Len(plLog) + 1)
        BY <3>2 DEF NewRowFits
      <3>5. row.time \in 1..plClock' /\ row.seq \in 1..i BY <3>3, <3>4
      <3> QED BY <3>4, <3>5 DEF PaperRowFits
    <2> QED BY <2>1, <2>2
  <1>4. ASSUME NEW i \in plIds, NEW j \in NewIds, plLog'[i].quote = plLog'[j].quote,
               plLog'[i].time = plLog'[j].time
        PROVE  FALSE
    <2> DEFINE row == plLog'[j]
    <2>1. NewRowFits(row, legs, t) BY DEF LogHasGrown
    <2>2. row.time = t /\ ~(plLog[i].quote = row.quote /\ plLog[i].time = t)
      BY <2>1 DEF NewRowFits
    <2> QED BY <1>2, <1>4, <2>2
  <1>5. ASSUME NEW i \in plIds', NEW j \in plIds', plLog'[i].quote = plLog'[j].quote,
               plLog'[i].time = plLog'[j].time
        PROVE  i = j
    <2>1. CASE i \in plIds /\ j \in plIds BY <1>1, <1>2, <1>5, <2>1 DEF PaperLogFits
    <2>2. CASE i \in plIds /\ j \notin plIds BY <1>4, <1>5, <2>2 DEF NewIds
    <2>3. CASE i \notin plIds /\ j \in plIds BY <1>4, <1>5, <2>3 DEF NewIds
    <2>4. CASE i \notin plIds /\ j \notin plIds
      <3>1. i \in NewIds /\ j \in NewIds BY <2>4 DEF NewIds
      <3> QED BY <1>5, <3>1 DEF LogHasGrown
    <2> QED BY <2>1, <2>2, <2>3, <2>4
  <1>6. \E T : plLog' \in Seq(T) BY DEF LogHasGrown
  <1> QED BY <1>3, <1>5, <1>6 DEF PaperLogFits

LEMMA GrownLogExplains ==
    ASSUME LedgerFits, NEW legs, NEW t, LogHasGrown(legs, t), plAudit' = plAudit
    PROVE  AuditExplains' /\ \A a \in plAudit' : AuditFits(a)'
  <1>1. plIds \subseteq plIds' /\ \A i \in plIds : plLog'[i] = plLog[i] BY DEF LogHasGrown
  <1>2. ASSUME NEW a \in plAudit PROVE AuditFits(a)'
    <2>1. AuditFits(a) BY DEF LedgerFits
    <2>2. a.id \in plIds' /\ plLog'[a.id] = plLog[a.id] BY <1>1, <2>1 DEF AuditFits
    <2> QED BY <2>1, <2>2 DEF AuditFits
  <1>3. \A i \in NewIds : plLog'[i].state = "unresolved" /\ plLog'[i].issue = ""
    <2> TAKE i \in NewIds
    <2>1. PICK row : row = plLog'[i] OBVIOUS
    <2>2. NewRowFits(row, legs, t) BY <2>1 DEF LogHasGrown
    <2> QED BY <2>1, <2>2 DEF NewRowFits
  <1>4. AuditExplains'
    <2> SUFFICES ASSUME NEW i \in plIds', <<plLog'[i].state, plLog'[i].issue>> # <<"unresolved", "">>
                 PROVE  \E a \in plAudit' : /\ a.id = i /\ a.new = plLog'[i].state
                          /\ a.profit = plLog'[i].profit /\ a.issue = plLog'[i].issue
      BY DEF AuditExplains
    <2>1. i \in plIds BY <1>3 DEF NewIds
    <2>2. plLog'[i] = plLog[i] BY <1>1, <2>1
    <2>3. AuditExplains BY DEF LedgerFits
    <2>4. <<plLog[i].state, plLog[i].issue>> # <<"unresolved", "">> BY <2>2
    <2>5. PICK a \in plAudit : /\ a.id = i /\ a.new = plLog[i].state
                               /\ a.profit = plLog[i].profit /\ a.issue = plLog[i].issue
      BY <2>1, <2>3, <2>4 DEF AuditExplains
    <2>6. a \in plAudit' OBVIOUS
    <2>7. /\ a.id = i /\ a.new = plLog'[i].state
          /\ a.profit = plLog'[i].profit /\ a.issue = plLog'[i].issue
      BY <2>2, <2>5
    <2> QED BY <2>6, <2>7
  <1> QED BY <1>2, <1>4

QuoteRows(q) == {k \in plIds : plLog[k].quote = q}
LEMMA RowsAreMore ==
    ASSUME PaperLogFits, NEW legs, NEW t, LogHasGrown(legs, t), NEW q
    PROVE  /\ Cardinality(QuoteRows(q)') \in Nat /\ Cardinality(QuoteRows(q)) \in Nat
           /\ Cardinality(QuoteRows(q)) <= Cardinality(QuoteRows(q)')
           /\ (\E i \in NewIds : plLog'[i].quote = q) =>
                 Cardinality(QuoteRows(q)) + 1 <= Cardinality(QuoteRows(q)')
  <1> DEFINE OldRows == QuoteRows(q)
             After == {k \in plIds' : plLog'[k].quote = q}
  <1>1. plIds \subseteq plIds' /\ \A i \in plIds : plLog'[i] = plLog[i] BY DEF LogHasGrown
  <1>2. OldRows \subseteq After BY <1>1 DEF QuoteRows
  <1>3. IsFiniteSet(After)
    <2> DEFINE m == Len(plLog')
    <2>1. m \in Nat /\ plIds' = 1..m BY DEF LogHasGrown, plIds
    <2> HIDE DEF m
    <2>2. IsFiniteSet(1..m) BY <2>1, FS_Interval
    <2>3. After \subseteq 1..m BY <2>1
    <2> QED BY <2>2, <2>3, FS_Subset
  <1>4. \A i \in NewIds : plLog'[i].quote = q => i \in After /\ i \notin OldRows
    BY DEF NewIds, QuoteRows
  <1>5. QuoteRows(q)' = After BY DEF QuoteRows
  <1> HIDE DEF OldRows, After
  <1>6. /\ IsFiniteSet(OldRows) /\ Cardinality(OldRows) <= Cardinality(After)
        /\ Cardinality(After) \in Nat /\ Cardinality(OldRows) \in Nat
    BY <1>2, <1>3, FS_Subset, FS_CardinalityType
  <1>7. ASSUME NEW i \in After, i \notin OldRows PROVE Cardinality(OldRows) + 1 <= Cardinality(After)
    <2>1. OldRows \cup {i} \in SUBSET After BY <1>2
    <2>2. Cardinality(OldRows \cup {i}) = Cardinality(OldRows) + 1 BY <1>6, <1>7, FS_AddElement
    <2>3. Cardinality(OldRows \cup {i}) <= Cardinality(After) BY <1>3, <2>1, FS_Subset
    <2> QED BY <2>2, <2>3
  <1>8. (\E i \in NewIds : plLog'[i].quote = q) => Cardinality(OldRows) + 1 <= Cardinality(After)
    BY <1>4, <1>7
  <1> QED BY <1>5, <1>6, <1>8 DEF OldRows

\* While no other logger reads, the new rows come after those of their quotes.
LEMMA NewRowsFollow ==
    ASSUME LedgerFits, NEW old, LoggerFits(old), old.pc = "sequenced", ReadIsCurrent(old),
           NEW row, NewRowFits(row, old.legs, old.time)
    PROVE  /\ row.seq = LastSequence(row.quote) + 1
           /\ \A k \in plIds : plLog[k].quote = row.quote =>
                 plLog[k].time < row.time /\ plLog[k].fetched # row.fetched
  <1>1. PICK leg \in old.legs : /\ row.quote = leg.quote /\ row.fetched = leg.fetched
                                /\ row.seq = leg.seq
    BY DEF NewRowFits
  <1>2. leg.errors = {} /\ leg.seq = LastSequence(leg.quote) + 1 BY DEF ReadIsCurrent
  <1>3. ASSUME NEW k \in plIds, plLog[k].quote = row.quote
        PROVE  plLog[k].time < row.time /\ plLog[k].fetched # row.fetched
    <2>1. row.time = old.time /\ plLog[k].time # old.time BY <1>3 DEF NewRowFits
    <2>2. plLog[k].time <= old.time BY DEF ReadIsCurrent, BetweenReadAndInsert
    <2>3. plLog[k].time \in 1..plClock /\ old.time \in 1..plClock /\ plClock \in Nat
      <3>1. plLog[k].time \in 1..plClock BY RowsFit DEF LedgerFits
      <3>2. old.time \in 1..plClock BY DEF LoggerFits
      <3>3. plClock \in Nat BY PaperAssumption DEF LedgerFits
      <3> QED BY <3>1, <3>2, <3>3
    <2>4. plLog[k].fetched # leg.fetched
      BY <1>1, <1>2, <1>3, <2>1 DEF ReadIsCurrent
    <2>5. plLog[k].time < old.time
      <3> DEFINE x == plLog[k].time
                 y == old.time
      <3>1. x \in Int /\ y \in Int /\ x <= y /\ x # y BY <2>1, <2>2, <2>3
      <3> HIDE DEF x, y
      <3>2. x < y BY <3>1
      <3> QED BY <3>2 DEF x, y
    <2> QED BY <1>1, <2>1, <2>4, <2>5
  <1> QED BY <1>1, <1>2, <1>3

\* No quote has a sequence number beyond its rows.
LEMMA SequencesAreCounted ==
    ASSUME LedgerFits, NEW q
    PROVE  /\ LastSequence(q) \in Nat
           /\ ~plOverlap => LastSequence(q) <= Cardinality(QuoteRows(q))
           /\ \A i \in plIds : plLog[i].quote = q => plLog[i].seq \in Nat /\ plLog[i].seq <= LastSequence(q)
  <1>1. PaperLogFits /\ Len(plLog) \in Nat BY LogIsInOrder DEF LedgerFits
  <1>2. /\ LastSequence(q) \in 0..Len(plLog)
        /\ LastSequence(q) # 0 =>
              \E i \in plIds : plLog[i].quote = q /\ plLog[i].seq = LastSequence(q)
        /\ \A i \in plIds : plLog[i].quote = q => plLog[i].seq <= LastSequence(q)
        /\ Cardinality(QuoteRows(q)) \in Nat
    BY <1>1, SequencesCount DEF QuoteRows
  <1>3. ASSUME ~plOverlap PROVE LastSequence(q) <= Cardinality(QuoteRows(q))
    <2>1. CASE LastSequence(q) = 0 BY <1>2, <2>1
    <2>2. CASE LastSequence(q) # 0
      <3>1. PICK i \in plIds : plLog[i].quote = q /\ plLog[i].seq = LastSequence(q)
        BY <1>2, <2>2
      <3>2. plLog[i].seq <= Cardinality(QuoteRows(q))
        BY <1>3, <3>1 DEF LedgerFits, SnapshotsAreOrdered, QuoteRows
      <3> QED BY <3>1, <3>2
    <2> QED BY <2>1, <2>2
  <1>4. \A i \in plIds : plLog[i].seq \in Nat
    <2>1. \A i \in plIds : plLog[i].seq \in 1..i /\ i \in Nat
      BY <1>1, RowsFit
    <2> QED BY <2>1
  <1> QED BY <1>1, <1>2, <1>3, <1>4

LEMMA GrownLogIsOrdered ==
    ASSUME LedgerFits, NEW old, LoggerFits(old), old.pc = "sequenced",
           LogHasGrown(old.legs, old.time), plOverlap' = plOverlap,
           ~plOverlap => ReadIsCurrent(old)
    PROVE  SnapshotsAreOrdered'
  <1>1. PaperLogFits BY DEF LedgerFits
  <1>2. plIds \subseteq plIds' /\ \A i \in plIds : plLog'[i] = plLog[i] BY DEF LogHasGrown
  <1> DEFINE After(q) == {k \in plIds' : plLog'[k].quote = q}
  <1> SUFFICES ASSUME ~plOverlap, NEW i \in plIds', NEW j \in plIds',
                      plLog'[i].quote = plLog'[j].quote
               PROVE  /\ plLog'[i].seq <= Cardinality(After(plLog'[i].quote))
                      /\ i < j => /\ plLog'[i].seq < plLog'[j].seq
                                  /\ plLog'[i].time < plLog'[j].time
                                  /\ plLog'[i].fetched # plLog'[j].fetched
    BY DEF SnapshotsAreOrdered
  <1>3. PICK q : q = plLog'[i].quote OBVIOUS
  <1>4. PICK last : last = LastSequence(q) OBVIOUS
  <1> DEFINE before == Cardinality(QuoteRows(q))
             after == Cardinality(After(q))
  <1>5. /\ after \in Nat /\ before \in Nat /\ before <= after
        /\ (\E k \in NewIds : plLog'[k].quote = q) => before + 1 <= after
    <2>1. QuoteRows(q)' = After(q) BY DEF QuoteRows
    <2>2. /\ Cardinality(QuoteRows(q)') \in Nat /\ Cardinality(QuoteRows(q)) \in Nat
          /\ Cardinality(QuoteRows(q)) <= Cardinality(QuoteRows(q)')
          /\ (\E k \in NewIds : plLog'[k].quote = q) =>
                Cardinality(QuoteRows(q)) + 1 <= Cardinality(QuoteRows(q)')
      BY <1>1, RowsAreMore
    <2> HIDE DEF After
    <2> QED BY <2>1, <2>2
  <1>6. /\ last \in Nat /\ last <= before
        /\ \A k \in plIds : plLog[k].quote = q => plLog[k].seq \in Nat /\ plLog[k].seq <= last
    BY <1>4, SequencesAreCounted
  <1>7. ASSUME NEW k \in NewIds, plLog'[k].quote = q
        PROVE  /\ plLog'[k].seq = last + 1
               /\ \A m \in plIds : plLog[m].quote = q =>
                     plLog[m].time < plLog'[k].time /\ plLog[m].fetched # plLog'[k].fetched
    <2>1. PICK row : row = plLog'[k] OBVIOUS
    <2>2. NewRowFits(row, old.legs, old.time) BY <2>1 DEF LogHasGrown
    <2>3. ReadIsCurrent(old) OBVIOUS
    <2>4. /\ row.seq = LastSequence(row.quote) + 1
          /\ \A m \in plIds : plLog[m].quote = row.quote =>
                plLog[m].time < row.time /\ plLog[m].fetched # row.fetched
      BY <2>2, <2>3, NewRowsFollow
    <2> QED BY <1>4, <1>7, <2>1, <2>4
  <1> HIDE DEF before
  <1>8. CASE i \in plIds
    <2>1. plLog'[i] = plLog[i] /\ plLog[i].quote = q BY <1>2, <1>3, <1>8
    <2>2. plLog[i].seq \in Nat /\ plLog[i].seq <= last BY <1>6, <1>8, <2>1
    <2>3. plLog'[i].seq <= after
      <3> HIDE DEF after
      <3> QED BY <1>5, <1>6, <2>1, <2>2
    <2>4. ASSUME i < j, j \in plIds
          PROVE  /\ plLog'[i].seq < plLog'[j].seq /\ plLog'[i].time < plLog'[j].time
                 /\ plLog'[i].fetched # plLog'[j].fetched
      <3>1. SnapshotsAreOrdered BY DEF LedgerFits
      <3>2. plLog'[j] = plLog[j] BY <1>2, <2>4
      <3>3. plLog[i].quote = plLog[j].quote BY <2>1, <3>2
      <3>4. /\ plLog[i].seq < plLog[j].seq /\ plLog[i].time < plLog[j].time
            /\ plLog[i].fetched # plLog[j].fetched
        BY <1>8, <2>4, <3>1, <3>3 DEF SnapshotsAreOrdered
      <3> QED BY <2>1, <3>2, <3>4
    <2>5. ASSUME j \notin plIds
          PROVE  /\ plLog'[i].seq < plLog'[j].seq /\ plLog'[i].time < plLog'[j].time
                 /\ plLog'[i].fetched # plLog'[j].fetched
      <3>1. j \in NewIds /\ plLog'[j].quote = q BY <1>3, <2>5 DEF NewIds
      <3>2. /\ plLog'[j].seq = last + 1
            /\ plLog[i].time < plLog'[j].time /\ plLog[i].fetched # plLog'[j].fetched
        BY <1>7, <1>8, <2>1, <3>1
      <3>3. plLog'[i].seq < plLog'[j].seq BY <1>6, <2>1, <2>2, <3>2
      <3> QED BY <2>1, <3>2, <3>3
    <2> QED BY <1>3, <2>3, <2>4, <2>5
  <1>9. CASE i \notin plIds
    <2>1. i \in NewIds BY <1>9 DEF NewIds
    <2>2. plLog'[i].seq = last + 1 /\ before + 1 <= after BY <1>3, <1>5, <1>7, <2>1
    <2>3. plLog'[i].seq <= after
      <3> HIDE DEF after
      <3> QED BY <1>5, <1>6, <2>2
    <2>4. ~(i < j)
      <3>1. i \in Nat /\ i > Len(plLog) BY <2>1 DEF LogHasGrown
      <3>2. CASE j \in plIds
        <4>1. j \in 1..Len(plLog) /\ Len(plLog) \in Nat BY <1>1, <3>2, LogIsInOrder
        <4> QED BY <3>1, <4>1
      <3>3. CASE j \notin plIds
        <4>1. j \in NewIds BY <3>3 DEF NewIds
        <4>2. i = j BY <2>1, <4>1 DEF LogHasGrown
        <4> QED BY <3>1, <4>2
      <3> QED BY <3>2, <3>3
    <2> QED BY <1>3, <2>3, <2>4
  <1> QED BY <1>8, <1>9

LEMMA InsertKeeps ==
    ASSUME PaperInv, NEW l \in PaperLoggers, InsertRows(l)
    PROVE  PaperInv'
  <1>1. PICK old : old = plLogger[l] OBVIOUS
  <1>2. PICK s : s = NewRows(old.legs, old.time) OBVIOUS
  <1>3. /\ LoggerFits(old) /\ old.pc = "sequenced" /\ plLog' = plLog \o s
        /\ Len(plLog') <= MaxPaperRows
        /\ UNCHANGED <<plClock, plRun, plAudit, plImporter, plOverlap>>
        /\ plLogger' = [plLogger EXCEPT ![l].pc = "inserted"]
    BY <1>1, <1>2 DEF PaperInv, InsertRows
  <1>4. LedgerFits /\ PaperLogFits BY DEF PaperInv, LedgerFits
  <1>5. NewRowsFit(s, old.legs, old.time) BY <1>2, <1>3, InsertedRowsFit
  <1>6. LogHasGrown(old.legs, old.time) BY <1>3, <1>4, <1>5, LogGrows
  <1>7. old.time \in 1..plClock BY <1>3 DEF LoggerFits
  <1>8. PaperLogFits' BY <1>3, <1>4, <1>6, <1>7, GrownLogFits
  <1>9. AuditExplains' /\ \A a \in plAudit' : AuditFits(a)'
    BY <1>3, <1>4, <1>6, GrownLogExplains
  <1>10. ~plOverlap => ReadIsCurrent(old) BY <1>1 DEF PaperInv, OneReads
  <1>11. SnapshotsAreOrdered' BY <1>3, <1>4, <1>6, <1>10, GrownLogIsOrdered
  <1>12. LedgerFits' BY <1>3, <1>4, <1>8, <1>9, <1>11 DEF LedgerFits
  <1>13. PICK r : r = [old EXCEPT !.pc = "inserted"] OBVIOUS
  <1>14. LoggerFits(r) /\ r.pc = "inserted"
    <2>1. /\ r = [x \in DOMAIN r |-> r[x]] /\ DOMAIN r = DOMAIN old
          /\ r.pc = "inserted" /\ r.time = old.time /\ r.legs = old.legs
      BY <1>3, <1>13 DEF LoggerFits
    <2> QED BY <1>3, <2>1 DEF LoggerFits
  <1>15. /\ plLogger' = [k \in PaperLoggers |-> plLogger'[k]]
         /\ plLogger'[l] = r
         /\ \A k \in PaperLoggers \ {l} : plLogger'[k] = plLogger[k]
    BY <1>1, <1>3, <1>13 DEF PaperInv
  <1>16. /\ plIds \subseteq plIds' /\ Len(plLog) \in Nat /\ Len(plLog') \in Nat
         /\ Len(plLog) <= Len(plLog')
    BY <1>4, <1>6, LogIsInOrder DEF LogHasGrown
  <1>17. 1..(Len(plLog) + 1) \subseteq 1..(Len(plLog') + 1) BY <1>16
  <1>18. ASSUME NEW k \in PaperLoggers PROVE LoggerFits(plLogger[k])'
    <2>1. LoggerFits(plLogger'[k]) BY <1>14, <1>15 DEF PaperInv
    <2> QED BY <1>3, <1>17, <2>1 DEF LoggerFits, LegFits
  <1>19. ASSUME NEW i \in PaperImporters PROVE ImporterFits(plImporter[i])'
    BY <1>3, <1>16 DEF PaperInv, ImporterFits
  <1>20. ASSUME ~plOverlap' PROVE OneReads'
    <2>1. ~plOverlap BY <1>3, <1>20
    <2>2. \A k \in PaperLoggers : plLogger'[k].pc \notin BetweenReadAndInsert
      <3>1. \A k \in PaperLoggers \ {l} : plLogger[k].pc \notin BetweenReadAndInsert
        BY <1>1, <1>3, <2>1, OthersDoNotRead DEF BetweenReadAndInsert
      <3> QED BY <1>14, <1>15, <3>1 DEF BetweenReadAndInsert
    <2> QED BY <2>2 DEF OneReads, ReadIsCurrent, BetweenReadAndInsert
  <1> QED BY <1>3, <1>12, <1>15, <1>18, <1>19, <1>20 DEF PaperInv

-----------------------------------------------------------------------------
LEMMA ImportStartsKeeps ==
    ASSUME PaperInv, NEW i \in PaperImporters, FetchOfficial(i) \/ ReadSettlementFile(i)
    PROVE  PaperInv'
  <1>1. PICK r : /\ ImporterFits(r) /\ r.held = {}
                 /\ plImporter' = [plImporter EXCEPT ![i] = r]
    <2>1. CASE FetchOfficial(i)
      <3>1. PICK answers \in [Markets -> Outcomes \cup {NoAnswer}] :
               plImporter' = [plImporter EXCEPT ![i] =
                  [NoImport EXCEPT !.pc = "fetched",
                                   !.said = FetchAll(PendingMarkets, answers),
                                   !.source = "official"]]
        BY <2>1 DEF FetchOfficial
      <3>2. PICK said : said = FetchAll(PendingMarkets, answers) OBVIOUS
      <3>3. PICK r : r = [NoImport EXCEPT !.pc = "fetched", !.said = said, !.source = "official"]
        OBVIOUS
      <3>4. ImporterFits(r) /\ r.held = {} BY <3>3 DEF NoImport, ImporterFits
      <3> QED BY <3>1, <3>2, <3>3, <3>4
    <2>2. CASE ReadSettlementFile(i)
      <3>1. PICK said : plImporter' = [plImporter EXCEPT ![i] =
                           [NoImport EXCEPT !.pc = "fetched", !.said = said]]
        BY <2>2 DEF ReadSettlementFile
      <3>2. PICK r : r = [NoImport EXCEPT !.pc = "fetched", !.said = said] OBVIOUS
      <3>3. ImporterFits(r) /\ r.held = {} BY <3>2 DEF NoImport, ImporterFits
      <3> QED BY <3>1, <3>2, <3>3
    <2> QED BY <2>1, <2>2
  <1>2. UNCHANGED <<plClock, plRun, plLog, plAudit, plLogger, plOverlap>>
    BY DEF FetchOfficial, ReadSettlementFile
  <1> QED BY <1>1, <1>2, ImporterMoves

LEMMA LockRowsKeeps ==
    ASSUME PaperInv, NEW i \in PaperImporters, LockRows(i)
    PROVE  PaperInv'
  <1>1. PICK old : old = plImporter[i] OBVIOUS
  <1>2. PICK held : held = Lockable(i) OBVIOUS
  <1>3. PICK r : r = [old EXCEPT !.pc = "locked", !.held = held] OBVIOUS
  <1>4. ImporterFits(old) BY <1>1 DEF PaperInv
  <1>5. plImporter' = [plImporter EXCEPT ![i] = r]
    BY <1>1, <1>2, <1>3 DEF LockRows, PaperInv
  <1>6. held \subseteq plIds /\ \A k \in PaperImporters \ {i} : held \cap plImporter[k].held = {}
    BY <1>2 DEF Lockable
  <1>7. /\ r = [x \in DOMAIN r |-> r[x]] /\ DOMAIN r = DOMAIN old
        /\ r.held = held /\ r.source = old.source
    BY <1>3, <1>4 DEF ImporterFits
  <1>8. ImporterFits(r) BY <1>4, <1>6, <1>7 DEF ImporterFits
  <1>9. UNCHANGED <<plClock, plRun, plLog, plAudit, plLogger, plOverlap>> BY DEF LockRows
  <1> QED BY <1>5, <1>6, <1>7, <1>8, <1>9, ImporterMoves

LEMMA ImportFailsKeeps ==
    ASSUME PaperInv, NEW i \in PaperImporters, ImportFails(i)
    PROVE  PaperInv'
  <1>1. /\ plImporter' = [plImporter EXCEPT ![i] = NoImport]
        /\ UNCHANGED <<plClock, plRun, plLog, plAudit, plLogger, plOverlap>>
    BY DEF ImportFails
  <1> QED BY <1>1, NothingHeld, ImporterMoves

-----------------------------------------------------------------------------
\* A settled row is the row with another outcome.
SameQuote(a, b) ==
    /\ b = [x \in DOMAIN b |-> b[x]] /\ RowFields \subseteq DOMAIN b
    /\ b.quote = a.quote /\ b.time = a.time /\ b.price = a.price
    /\ b.fetched = a.fetched /\ b.seq = a.seq
LogIsKept ==
    /\ \E T : plLog' \in Seq(T)
    /\ Len(plLog') = Len(plLog) /\ plIds' = plIds
    /\ \A k \in plIds : SameQuote(plLog[k], plLog'[k])

SettledAs(row, d) == [row EXCEPT !.state = d[1], !.profit = d[2], !.issue = d[3]]
LEMMA SettledRow ==
    ASSUME NEW row, row = [x \in DOMAIN row |-> row[x]], RowFields \subseteq DOMAIN row,
           NEW d
    PROVE  /\ SameQuote(row, SettledAs(row, d))
           /\ SettledAs(row, d).state = d[1] /\ SettledAs(row, d).profit = d[2]
           /\ SettledAs(row, d).issue = d[3]
  <1> DEFINE new == SettledAs(row, d)
  <1>1. /\ new = [x \in DOMAIN new |-> new[x]] /\ DOMAIN new = DOMAIN row
        /\ new.quote = row.quote /\ new.time = row.time /\ new.price = row.price
        /\ new.fetched = row.fetched /\ new.seq = row.seq
        /\ new.state = d[1] /\ new.profit = d[2] /\ new.issue = d[3]
    BY DEF RowFields, SettledAs
  <1> QED BY <1>1 DEF SameQuote

\* A decision is of the entry price and the side alone.
LEMMA DecisionsAreStable ==
    ASSUME NEW a, NEW b, SameQuote(a, b), NEW said
    PROVE  Decision(b, said) = Decision(a, said)
  BY DEF Decision, SameQuote

LEMMA DecisionIsTriple ==
    ASSUME NEW row, NEW said
    PROVE  Decision(row, said) =
              <<Decision(row, said)[1], Decision(row, said)[2], Decision(row, said)[3]>>
  BY DEF Decision

LEMMA KeptLogFits ==
    ASSUME LedgerFits, LogIsKept, plClock' = plClock, plOverlap' = plOverlap
    PROVE  /\ PaperLogFits' /\ SnapshotsAreOrdered'
           /\ \A a : AuditFits(a) => AuditFits(a)'
           /\ \A q : LastSequence(q)' = LastSequence(q)
  <1>1. PaperLogFits BY DEF LedgerFits
  <1>2. plIds' = plIds /\ Len(plLog') = Len(plLog) BY DEF LogIsKept
  <1>3. \A k \in plIds : /\ plLog'[k].quote = plLog[k].quote /\ plLog'[k].time = plLog[k].time
                         /\ plLog'[k].fetched = plLog[k].fetched /\ plLog'[k].seq = plLog[k].seq
    BY DEF LogIsKept, SameQuote
  <1>4. PaperLogFits'
    <2>1. ASSUME NEW i \in plIds PROVE PaperRowFits(plLog[i], i)'
      <3>1. PICK row : row = plLog'[i] OBVIOUS
      <3>2. row = [x \in DOMAIN row |-> row[x]] /\ RowFields \subseteq DOMAIN row
        BY <3>1 DEF LogIsKept, SameQuote
      <3>3. row.quote \in Quotes /\ row.time \in 1..plClock /\ row.seq \in 1..i
        BY <1>1, <1>3, <3>1, RowsFit
      <3> QED BY <3>1, <3>2, <3>3 DEF PaperRowFits
    <2>2. \A i, j \in plIds : plLog'[i].quote = plLog'[j].quote /\ plLog'[i].time = plLog'[j].time => i = j
      BY <1>1, <1>3 DEF PaperLogFits
    <2>3. Len(plLog') <= MaxPaperRows BY <1>1, <1>2 DEF PaperLogFits
    <2>4. \E T : plLog' \in Seq(T) BY DEF LogIsKept
    <2> QED BY <1>2, <2>1, <2>2, <2>3, <2>4 DEF PaperLogFits
  <1>5. SnapshotsAreOrdered'
    <2> DEFINE Rows(q) == {k \in plIds : plLog[k].quote = q}
    <2>1. \A i, j \in plIds : plLog[i].quote = plLog[j].quote /\ ~plOverlap' =>
             /\ plLog[i].seq <= Cardinality(Rows(plLog[i].quote))
             /\ i < j => /\ plLog[i].seq < plLog[j].seq
                        /\ plLog[i].time < plLog[j].time
                        /\ plLog[i].fetched # plLog[j].fetched
      BY DEF LedgerFits, SnapshotsAreOrdered
    <2>2. \A q : Rows(q) = {k \in plIds' : plLog'[k].quote = q} BY <1>2, <1>3
    <2> SUFFICES ASSUME ~plOverlap', NEW i \in plIds, NEW j \in plIds,
                        plLog'[i].quote = plLog'[j].quote
                 PROVE  /\ plLog'[i].seq <= Cardinality({k \in plIds' : plLog'[k].quote = plLog'[i].quote})
                        /\ i < j => /\ plLog'[i].seq < plLog'[j].seq
                                    /\ plLog'[i].time < plLog'[j].time
                                    /\ plLog'[i].fetched # plLog'[j].fetched
      BY <1>2 DEF SnapshotsAreOrdered
    <2>3. PICK q : q = plLog[i].quote OBVIOUS
    <2>4. plLog'[i].quote = q /\ plLog[j].quote = q BY <1>3, <2>3
    <2>5. Rows(q) = {k \in plIds' : plLog'[k].quote = q} BY <2>2
    <2> HIDE DEF Rows
    <2>6. plLog'[i].seq <= Cardinality({k \in plIds' : plLog'[k].quote = plLog'[i].quote})
      <3>1. {k \in plIds' : plLog'[k].quote = plLog'[i].quote} = Rows(q) BY <2>4, <2>5
      <3>2. plLog[i].seq <= Cardinality(Rows(q)) BY <2>1, <2>3, <2>4
      <3> QED BY <1>3, <3>1, <3>2
    <2>7. i < j => /\ plLog'[i].seq < plLog'[j].seq
                  /\ plLog'[i].time < plLog'[j].time
                  /\ plLog'[i].fetched # plLog'[j].fetched
      BY <1>3, <2>1, <2>3, <2>4
    <2> QED BY <2>6, <2>7
  <1>6. ASSUME NEW a, AuditFits(a) PROVE AuditFits(a)'
    <2>1. a.id \in plIds BY <1>6 DEF AuditFits
    <2>2. PICK row : row = plLog'[a.id] OBVIOUS
    <2>3. PICK before : before = plLog[a.id] OBVIOUS
    <2>4. SameQuote(before, row) BY <2>1, <2>2, <2>3 DEF LogIsKept
    <2>5. Decision(row, a.raw) = Decision(before, a.raw) BY <2>4, DecisionsAreStable
    <2>6. <<a.new, a.profit, a.issue>> = Decision(row, a.raw) BY <1>6, <2>3, <2>5 DEF AuditFits
    <2>7. <<a.new, a.profit, a.issue>> = Decision(plLog[a.id], a.raw)'
      BY <2>2, <2>6 DEF Decision
    <2> QED BY <1>2, <1>6, <2>1, <2>7 DEF AuditFits
  <1>7. \A q : LastSequence(q)' = LastSequence(q)
    <2> TAKE q
    <2>1. {plLog'[i].seq : i \in {j \in plIds' : plLog'[j].quote = q}}
            = {plLog[i].seq : i \in {j \in plIds : plLog[j].quote = q}}
      BY <1>2, <1>3
    <2> QED BY <2>1 DEF LastSequence
  <1> QED BY <1>4, <1>5, <1>6, <1>7

\* import_settlements: each changed row has its audit, old or new.
LEMMA ImportKeeps ==
    ASSUME PaperInv, NEW i \in PaperImporters, Import(i)
    PROVE  PaperInv'
  <1>1. PICK old : old = plImporter[i] OBVIOUS
  <1> DEFINE said(id) == old.said[plLog[id].quote.market]
             changed == {id \in old.held : Changes(plLog[id], said(id))}
             audit == {AuditRow(id, plLog[id], said(id), old.source) : id \in changed}
             settled(id) == [plLog[id] EXCEPT !.state = Decision(plLog[id], said(id))[1],
                                              !.profit = Decision(plLog[id], said(id))[2],
                                              !.issue = Decision(plLog[id], said(id))[3]]
  <1>2. /\ plLog' = [id \in plIds |-> IF id \in changed THEN settled(id) ELSE plLog[id]]
        /\ plAudit' = plAudit \cup {a \in audit : \A b \in plAudit : ~SameAudit(a, b)}
        /\ plImporter' = [plImporter EXCEPT ![i] = NoImport]
        /\ UNCHANGED <<plClock, plRun, plLogger, plOverlap>>
    BY <1>1, Zenon DEF Import
  <1>3. LedgerFits /\ PaperLogFits /\ AuditExplains BY DEF PaperInv, LedgerFits
  <1>4. ImporterFits(old) BY <1>1 DEF PaperInv
  <1>5. changed \subseteq plIds BY <1>4 DEF ImporterFits
  <1> HIDE DEF changed
  <1>6. \A k \in plIds : plLog[k] = [x \in DOMAIN plLog[k] |-> plLog[k][x]]
                         /\ RowFields \subseteq DOMAIN plLog[k]
    BY <1>3 DEF PaperLogFits, PaperRowFits
  <1>7. ASSUME NEW k \in changed
        PROVE  /\ SameQuote(plLog[k], plLog'[k])
               /\ <<plLog'[k].state, plLog'[k].profit, plLog'[k].issue>> = Decision(plLog[k], said(k))
    <2>1. PICK row : row = plLog[k] OBVIOUS
    <2>2. PICK d : d = Decision(row, said(k)) OBVIOUS
    <2>3. PICK new : new = SettledAs(row, d) OBVIOUS
    <2>4. plLog'[k] = new BY <1>2, <1>5, <2>1, <2>2, <2>3, Zenon DEF SettledAs
    <2>5. row = [x \in DOMAIN row |-> row[x]] /\ RowFields \subseteq DOMAIN row
      BY <1>5, <1>6, <2>1
    <2>6. /\ SameQuote(row, new) /\ new.state = d[1] /\ new.profit = d[2] /\ new.issue = d[3]
      BY <2>3, <2>5, SettledRow
    <2>7. d = <<d[1], d[2], d[3]>> BY <2>2, DecisionIsTriple
    <2> QED BY <2>1, <2>2, <2>4, <2>6, <2>7
  <1>8. \A k \in plIds \ changed : plLog'[k] = plLog[k] BY <1>2, Zenon
  <1>9. LogIsKept
    <2>1. PICK n : n = Len(plLog) OBVIOUS
    <2>2. n \in Nat /\ plIds = 1..n BY <1>3, <2>1, LogIsInOrder
    <2> DEFINE T == {plLog'[k] : k \in plIds}
               row(id) == IF id \in changed THEN settled(id) ELSE plLog[id]
    <2>3. plLog' = [id \in 1..n |-> row(id)] BY <1>2, <2>2, Zenon
    <2> HIDE DEF row, settled
    <2>4. plLog' \in Seq({row(id) : id \in 1..n}) /\ Len(plLog') = n BY <2>2, <2>3
    <2>5. plIds' = plIds BY <2>2, <2>4 DEF plIds
    <2>6. ASSUME NEW k \in plIds PROVE SameQuote(plLog[k], plLog'[k])
      <3>1. CASE k \in changed BY <1>7, <3>1
      <3>2. CASE k \notin changed
        <4>1. plLog'[k] = plLog[k] BY <1>8, <3>2
        <4>2. PICK e : e = plLog[k] OBVIOUS
        <4>3. e = [x \in DOMAIN e |-> e[x]] /\ RowFields \subseteq DOMAIN e BY <1>6, <4>2
        <4>4. SameQuote(e, e) BY <4>3 DEF SameQuote
        <4> QED BY <4>1, <4>2, <4>4
      <3> QED BY <3>1, <3>2
    <2> QED BY <2>1, <2>4, <2>5, <2>6 DEF LogIsKept
  <1>10. /\ PaperLogFits' /\ SnapshotsAreOrdered'
         /\ \A a : AuditFits(a) => AuditFits(a)'
         /\ \A q : LastSequence(q)' = LastSequence(q)
    BY <1>2, <1>3, <1>9, KeptLogFits, Zenon
  <1>11. plIds' = plIds /\ Len(plLog') = Len(plLog) BY <1>9 DEF LogIsKept
  <1>12. ASSUME NEW k \in changed
         PROVE  LET a == AuditRow(k, plLog[k], said(k), old.source)
                IN  /\ AuditFits(a) /\ a.id = k /\ a.raw = said(k)
                    /\ a.new = plLog'[k].state /\ a.profit = plLog'[k].profit
                    /\ a.issue = plLog'[k].issue
    <2>1. PICK row : row = plLog[k] OBVIOUS
    <2>2. PICK raw : raw = said(k) OBVIOUS
    <2>3. PICK d : d = Decision(row, raw) OBVIOUS
    <2>4. PICK a : a = AuditRow(k, row, raw, old.source) OBVIOUS
    <2>5. /\ a.id = k /\ a.raw = raw /\ a.source = old.source
          /\ a.new = d[1] /\ a.profit = d[2] /\ a.issue = d[3]
      BY <2>3, <2>4 DEF AuditRow
    <2>6. d = <<d[1], d[2], d[3]>> BY <2>3, DecisionIsTriple
    <2>7. <<plLog'[k].state, plLog'[k].profit, plLog'[k].issue>> = d BY <1>7, <2>1, <2>2, <2>3
    <2>8. plLog'[k].state = d[1] /\ plLog'[k].profit = d[2] /\ plLog'[k].issue = d[3]
      BY <2>6, <2>7
    <2>9. AuditFits(a)
      <3>1. a.id \in plIds /\ a.source \in {"file", "official"}
        BY <1>4, <1>5, <2>5 DEF ImporterFits
      <3>2. <<a.new, a.profit, a.issue>> = Decision(plLog[a.id], a.raw)
        BY <2>1, <2>3, <2>5, <2>6
      <3> QED BY <3>1, <3>2 DEF AuditFits
    <2> QED BY <2>1, <2>2, <2>4, <2>5, <2>8, <2>9
  <1>13. \A a \in plAudit' : AuditFits(a)'
    <2>1. \A a \in plAudit : AuditFits(a) BY <1>3 DEF LedgerFits
    <2>2. \A a \in audit : AuditFits(a) BY <1>12
    <2> HIDE DEF audit
    <2>3. \A a \in plAudit' : AuditFits(a) BY <1>2, <2>1, <2>2, Zenon
    <2> QED BY <1>10, <2>3
  <1>14. AuditExplains'
    <2> SUFFICES ASSUME NEW k \in plIds, <<plLog'[k].state, plLog'[k].issue>> # <<"unresolved", "">>
                 PROVE  \E a \in plAudit' : /\ a.id = k /\ a.new = plLog'[k].state
                          /\ a.profit = plLog'[k].profit /\ a.issue = plLog'[k].issue
      BY <1>11 DEF AuditExplains
    <2>1. CASE k \notin changed
      <3>1. plLog'[k] = plLog[k] BY <1>8, <2>1
      <3>2. <<plLog[k].state, plLog[k].issue>> # <<"unresolved", "">> BY <3>1
      <3>3. PICK a \in plAudit : /\ a.id = k /\ a.new = plLog[k].state
                                 /\ a.profit = plLog[k].profit /\ a.issue = plLog[k].issue
        BY <1>3, <3>2 DEF AuditExplains
      <3>4. a \in plAudit' BY <1>2, Zenon
      <3> QED BY <3>1, <3>3, <3>4
    <2>2. CASE k \in changed
      <3>1. PICK a : a = AuditRow(k, plLog[k], said(k), old.source) OBVIOUS
      <3>2. /\ AuditFits(a) /\ a.id = k /\ a.new = plLog'[k].state
            /\ a.profit = plLog'[k].profit /\ a.issue = plLog'[k].issue
        BY <1>12, <2>2, <3>1, Zenon
      <3>3. a \in audit BY <2>2, <3>1
      <3>4. CASE \A b \in plAudit : ~SameAudit(a, b)
        <4>1. a \in plAudit' BY <1>2, <3>3, <3>4, Zenon
        <4> QED BY <3>2, <4>1
      <3>5. CASE ~(\A b \in plAudit : ~SameAudit(a, b))
        <4>1. PICK b \in plAudit : SameAudit(a, b) BY <3>5
        <4>2. AuditFits(b) BY <1>3 DEF LedgerFits
        <4>3. b.id = a.id /\ b.raw = a.raw /\ b.new = a.new /\ b.issue = a.issue
          BY <4>1 DEF SameAudit
        <4>4. <<a.new, a.profit, a.issue>> = <<b.new, b.profit, b.issue>>
          BY <3>2, <4>2, <4>3 DEF AuditFits
        <4>5. b.profit = a.profit BY <4>4
        <4>6. b \in plAudit' BY <1>2, Zenon
        <4> QED BY <3>2, <4>3, <4>5, <4>6
      <3> QED BY <3>4, <3>5
    <2> QED BY <2>1, <2>2
  <1>15. LedgerFits' BY <1>2, <1>3, <1>10, <1>13, <1>14, Zenon DEF LedgerFits
  <1>16. ASSUME NEW l \in PaperLoggers PROVE LoggerFits(plLogger[l])'
    <2>1. LoggerFits(plLogger[l]) BY DEF PaperInv
    <2> QED BY <1>2, <1>11, <2>1, Zenon DEF LoggerFits, LegFits
  <1>17. /\ plImporter' = [k \in PaperImporters |-> plImporter'[k]]
         /\ plImporter'[i] = NoImport
         /\ \A k \in PaperImporters \ {i} : plImporter'[k] = plImporter[k]
    BY <1>2, Zenon DEF PaperInv
  <1>18. ASSUME NEW k \in PaperImporters PROVE ImporterFits(plImporter[k])'
    <2>1. ImporterFits(plImporter'[k]) BY <1>17, NothingHeld DEF PaperInv
    <2> QED BY <1>11, <2>1 DEF ImporterFits
  <1>19. \A j, k \in PaperImporters : j # k => plImporter'[j].held \cap plImporter'[k].held = {}
    BY <1>17, NothingHeld DEF PaperInv
  <1>20. ASSUME ~plOverlap' PROVE OneReads'
    <2>1. OneReads BY <1>2, <1>20, Zenon DEF PaperInv
    <2>2. \A k \in plIds : /\ plLog'[k].quote = plLog[k].quote /\ plLog'[k].time = plLog[k].time
                           /\ plLog'[k].fetched = plLog[k].fetched
      BY <1>9 DEF LogIsKept, SameQuote
    <2>3. ASSUME NEW l \in PaperLoggers PROVE ReadIsCurrent(plLogger[l])'
      <3>1. PICK r : r = plLogger[l] OBVIOUS
      <3>2. plLogger'[l] = r /\ ReadIsCurrent(r) BY <1>2, <2>1, <3>1, Zenon DEF OneReads
      <3>3. ReadIsCurrent(r)' BY <1>10, <1>11, <2>2, <3>2 DEF ReadIsCurrent
      <3> QED BY <3>2, <3>3 DEF ReadIsCurrent
    <2> QED BY <1>2, <2>1, <2>3, Zenon DEF OneReads
  <1> QED BY <1>2, <1>15, <1>16, <1>17, <1>18, <1>19, <1>20, Zenon DEF PaperInv

-----------------------------------------------------------------------------
LEMMA PaperKeeps ==
    ASSUME PaperInv, plNext \/ UNCHANGED plVars
    PROVE  PaperInv'
  <1>1. plClock \in 1..MaxPaperClock /\ MaxPaperClock \in Nat /\ plRun \in Configs \cup {0}
    BY PaperAssumption DEF PaperInv, LedgerFits
  <1>2. ASSUME NEW l \in PaperLoggers, LoggerStep(l) PROVE PaperInv'
    <2>1. CASE BeginLog(l) BY <2>1, BeginLogKeeps
    <2>2. CASE MarkUnchanged(l) BY <2>2, MarkKeeps
    <2>3. CASE AssignSequences(l) BY <2>3, AssignKeeps
    <2>4. CASE InsertRows(l) BY <2>4, InsertKeeps
    <2>5. CASE InsertRejections(l) \/ LoggerDies(l) BY <2>5, LoggerEndsKeeps
    <2> QED BY <1>2, <2>1, <2>2, <2>3, <2>4, <2>5 DEF LoggerStep
  <1>3. ASSUME NEW i \in PaperImporters, ImporterStep(i) PROVE PaperInv'
    <2>1. CASE FetchOfficial(i) \/ ReadSettlementFile(i) BY <2>1, ImportStartsKeeps
    <2>2. CASE LockRows(i) BY <2>2, LockRowsKeeps
    <2>3. CASE Import(i) BY <2>3, ImportKeeps
    <2>4. CASE ImportFails(i) BY <2>4, ImportFailsKeeps
    <2> QED BY <1>3, <2>1, <2>2, <2>3, <2>4 DEF ImporterStep
  <1>4. CASE PaperTick
    <2>1. plClock' \in 1..MaxPaperClock /\ plClock <= plClock' BY <1>1, <1>4 DEF PaperTick
    <2>2. plRun' \in Configs \cup {0} BY <1>1, <1>4 DEF PaperTick
    <2>3. UNCHANGED <<plLog, plAudit, plLogger, plImporter, plOverlap>> BY <1>4 DEF PaperTick
    <2> QED BY <2>1, <2>2, <2>3, RestKeeps
  <1>5. ASSUME UNCHANGED <<plClock, plLog, plAudit, plLogger, plImporter, plOverlap>>,
               plRun' \in Configs \cup {0}
        PROVE  PaperInv'
    <2>1. plClock' \in 1..MaxPaperClock /\ plClock <= plClock' BY <1>1, <1>5
    <2> QED BY <1>5, <2>1, RestKeeps
  <1>6. CASE ReporterStep
    <2>1. UNCHANGED <<plClock, plLog, plAudit, plLogger, plImporter, plOverlap>>
      BY <1>6 DEF ReporterStep, StartRun, build_daily_report, build_stage3b_audit_report,
                  ReportDone
    <2>2. plRun' \in Configs \cup {0}
      BY <1>1, <1>6 DEF ReporterStep, StartRun, build_daily_report,
                        build_stage3b_audit_report, ReportDone
    <2> QED BY <1>5, <2>1, <2>2
  <1>7. CASE UNCHANGED plVars
    <2>1. UNCHANGED <<plClock, plLog, plAudit, plLogger, plImporter, plOverlap>>
      BY <1>7 DEF plVars
    <2>2. plRun' \in Configs \cup {0} BY <1>1, <1>7 DEF plVars
    <2> QED BY <1>5, <2>1, <2>2
  <1> QED BY <1>2, <1>3, <1>4, <1>6, <1>7 DEF plNext

\* No two rows of one exposure are both the earliest.
LEMMA FirstsDiffer ==
    ASSUME PaperInv, NEW i \in plIds, NEW j \in plIds,
           Exposure(plLog[i]) = Exposure(plLog[j]), Earlier(i, j), Earlier(j, i)
    PROVE  i = j
  <1> DEFINE p == plLog[i]
             q == plLog[j]
  <1>1. PaperLogFits BY DEF PaperInv, LedgerFits
  <1>2. /\ p.time \in Int /\ q.time \in Int /\ p.seq \in Int /\ q.seq \in Int
        /\ p.quote \in Quotes /\ q.quote \in Quotes
    BY <1>1, RowsFit
  <1>3. p.quote.strategy \in Int /\ q.quote.strategy \in Int BY <1>2, PaperAssumption
  <1>4. p.quote.event = q.quote.event /\ p.quote.market = q.quote.market /\ p.quote.side = q.quote.side
    BY DEF Exposure
  <1>5. /\ \/ p.time < q.time
           \/ p.time = q.time /\ p.seq < q.seq
           \/ p.time = q.time /\ p.seq = q.seq /\ p.quote.strategy <= q.quote.strategy
        /\ \/ q.time < p.time
           \/ q.time = p.time /\ q.seq < p.seq
           \/ q.time = p.time /\ q.seq = p.seq /\ q.quote.strategy <= p.quote.strategy
    BY DEF Earlier
  <1>6. p.time = q.time /\ p.quote = q.quote => i = j BY <1>1 DEF PaperLogFits
  <1> HIDE DEF p, q
  <1>7. p.time = q.time BY <1>2, <1>5
  <1>8. p.quote.strategy = q.quote.strategy BY <1>2, <1>3, <1>5
  <1>9. p.quote = q.quote BY <1>2, <1>4, <1>8, PaperAssumption
  <1> QED BY <1>6, <1>7, <1>9

LEMMA FirstsAreFew ==
    ASSUME PaperInv
    PROVE  /\ Cardinality(SettledIds(DedupeMarketLevel(plIds))) \in Nat
           /\ Cardinality(Exposures(SettledIds(plIds))) \in Nat
           /\ Cardinality(SettledIds(DedupeMarketLevel(plIds))) <= Cardinality(Exposures(SettledIds(plIds)))
  <1> DEFINE S == SettledIds(plIds)
             E == Exposures(S)
             D == SettledIds(DedupeMarketLevel(plIds))
             e(i) == Exposure(plLog[i])
  <1>1. S \subseteq plIds /\ D \subseteq S BY DEF SettledIds, DedupeMarketLevel
  <1>2. \A i \in S : e(i) \in E BY DEF Exposures
  <1>3. \A x \in E : \E i \in S : x = e(i) BY DEF Exposures
  <1>4. ASSUME NEW i \in D, NEW j \in D, e(i) = e(j) PROVE i = j
    <2>1. i \in plIds /\ j \in plIds /\ Earlier(i, j) /\ Earlier(j, i)
      BY <1>4 DEF SettledIds, DedupeMarketLevel
    <2> QED BY <1>4, <2>1, FirstsDiffer
  <1>5. IsFiniteSet(plIds)
    <2>1. PICK n : n = Len(plLog) OBVIOUS
    <2>2. n \in Nat /\ plIds = 1..n BY <2>1, LogIsInOrder DEF PaperInv, LedgerFits
    <2>3. IsFiniteSet(1..n) BY <2>2, FS_Interval
    <2> QED BY <2>2, <2>3
  <1> HIDE DEF S, E, D, e
  <1>6. IsFiniteSet(S) BY <1>1, <1>5, FS_Subset
  <1>7. IsFiniteSet(E)
    <2> DEFINE f == [x \in E |-> CHOOSE i \in S : x = e(i)]
    <2>1. \A x \in E : f[x] \in S /\ x = e(f[x]) BY <1>3
    <2>2. f \in [E -> S] BY <2>1
    <2> HIDE DEF f
    <2>3. f \in Injection(E, S) BY <2>1, <2>2 DEF Injection, IsInjective
    <2> QED BY <1>6, <2>3, FS_Injection
  <1>8. Cardinality(D) <= Cardinality(E)
    <2> DEFINE f == [i \in D |-> e(i)]
    <2>1. f \in Injection(D, E) BY <1>1, <1>2, <1>4 DEF Injection, IsInjective
    <2> QED BY <1>7, <2>1, FS_Injection
  <1>9. IsFiniteSet(D) BY <1>1, <1>6, FS_Subset
  <1>10. Cardinality(D) \in Nat /\ Cardinality(E) \in Nat BY <1>7, <1>9, FS_CardinalityType
  <1> QED BY <1>8, <1>10 DEF D, E, S

LEMMA PaperPropertiesFollow ==
    ASSUME PaperInv
    PROVE  plTypeOK /\ SnapshotsAreOrdered /\ AuditExplains /\ GatesAgree
  <1>1. LedgerFits /\ PaperLogFits BY DEF PaperInv, LedgerFits
  <1>2. plTypeOK
    <2>1. \A i \in plIds : plLog[i].quote \in Quotes /\ plLog[i].seq \in 1..MaxPaperRows
      <3>1. PICK n : n = Len(plLog) OBVIOUS
      <3>2. n \in Nat /\ n <= MaxPaperRows /\ plIds = 1..n /\ MaxPaperRows \in Nat
        BY <1>1, <3>1, LogIsInOrder, PaperAssumption DEF PaperLogFits
      <3>3. \A i \in 1..n : 1..i \subseteq 1..MaxPaperRows BY <3>2
      <3> QED BY <1>1, <3>2, <3>3, RowsFit
    <2>2. \A a \in plAudit : a.id \in plIds /\ a.source \in {"file", "official"}
      BY <1>1 DEF LedgerFits, AuditFits
    <2>3. plClock \in 1..MaxPaperClock BY <1>1 DEF LedgerFits
    <2> QED BY <2>1, <2>2, <2>3 DEF plTypeOK, PaperInv
  <1>3. GatesAgree
    <2>1. MinSettled \in Nat BY PaperAssumption
    <2> QED BY <2>1, FirstsAreFew DEF GatesAgree, AuditGate, DailyGate, Enough
  <1> QED BY <1>1, <1>2, <1>3 DEF LedgerFits

-----------------------------------------------------------------------------
(* SportsCycle: what a batch, a grade and a closing line rest on. *)

LEMMA AppendIs ==
    ASSUME NEW s, IsList(s), NEW x
    PROVE  /\ IsList(Append(s, x)) /\ Len(Append(s, x)) = Len(s) + 1
           /\ \A i \in 1..Len(s) : Append(s, x)[i] = s[i]
           /\ Append(s, x)[Len(s) + 1] = x
  <1>1. PICK S : S = {s[i] : i \in 1..Len(s)} \cup {x} OBVIOUS
  <1>2. s \in Seq(S)
    <2>1. \A i \in 1..Len(s) : s[i] \in S BY <1>1
    <2>2. s \in [1..Len(s) -> S] BY <2>1 DEF IsList
    <2> QED BY <2>2 DEF IsList
  <1>3. x \in S BY <1>1
  <1>4. PICK c : c = Append(s, x) OBVIOUS
  <1>5. c \in Seq(S) /\ Len(c) = Len(s) + 1 BY <1>2, <1>3, <1>4
  <1>6. IsList(c) BY <1>5 DEF IsList
  <1>7. \A i \in 1..Len(s) : c[i] = s[i] BY <1>2, <1>3, <1>4
  <1>8. c[Len(s) + 1] = x BY <1>2, <1>3, <1>4
  <1> QED BY <1>4, <1>5, <1>6, <1>7, <1>8

\* What a market of an entry offers, and a row of posted odds
OfferFits(o) == /\ <<o.market, o.selection>> \in MarketSides
                /\ o.line \in Int /\ o.odds \in Int
OffersFit(seq) == IsList(seq) /\ \A i \in 1..Len(seq) : OfferFits(seq[i])
RecordFits(r) ==
    /\ r.event \in Games /\ r.start = GameFacts[r.event].start
    /\ OfferFits(r) /\ r.at \in Int /\ r.fetched \in Int
RecordsFit(seq) == IsList(seq) /\ \A i \in 1..Len(seq) : RecordFits(seq[i])

EntryNumbers == {"at", "homeMoney", "awayMoney", "spread", "homeLine", "homeOdds", "awayLine",
                 "awayOdds", "total", "overLine", "overOdds", "underLine", "underOdds"}
PriceFits(e) ==
    /\ e = [field \in DOMAIN e |-> e[field]] /\ "book" \in DOMAIN e
    /\ \A field \in EntryNumbers : field \in DOMAIN e /\ e[field] \in Int

LEMMA OfferIs ==
    ASSUME NEW market, NEW selection, <<market, selection>> \in MarketSides,
           NEW line \in Int, NEW odds \in Int
    PROVE  OffersFit(Offer(market, selection, line, odds))
  <1>1. PICK o : o = [market |-> market, selection |-> selection, odds |-> odds,
                      line |-> IF market = "moneyline" THEN NoLine ELSE line] OBVIOUS
  <1>2. OfferFits(o) BY <1>1 DEF OfferFits, NoLine
  <1>3. OffersFit(<<o>>) BY <1>2 DEF OffersFit, IsList
  <1>4. OffersFit(<<>>) BY DEF OffersFit, IsList
  <1> QED BY <1>1, <1>3, <1>4 DEF Offer

LEMMA OffersJoin ==
    ASSUME NEW a, NEW b, OffersFit(a), OffersFit(b) PROVE OffersFit(a \o b)
  <1>1. IsList(a) /\ IsList(b) BY DEF OffersFit
  <1>2. PICK c : c = a \o b OBVIOUS
  <1>3. Joins(c, a, b) BY <1>1, <1>2, ListsJoin
  <1>4. Len(a) \in Nat /\ Len(b) \in Nat BY <1>1 DEF IsList
  <1>5. ASSUME NEW i \in 1..Len(c) PROVE OfferFits(c[i])
    <2>1. CASE i <= Len(a)
      <3>1. i \in 1..Len(a) BY <1>4, <2>1
      <3>2. c[i] = a[i] BY <1>3, <3>1 DEF Joins
      <3> QED BY <3>1, <3>2 DEF OffersFit
    <2>2. CASE i > Len(a)
      <3>1. i - Len(a) \in 1..Len(b) /\ Len(a) + (i - Len(a)) = i BY <1>3, <1>4, <2>2 DEF Joins
      <3>2. c[i] = b[i - Len(a)] BY <1>3, <3>1 DEF Joins
      <3> QED BY <3>1, <3>2 DEF OffersFit
    <2> QED BY <1>4, <2>1, <2>2
  <1> QED BY <1>2, <1>3, <1>5 DEF OffersFit, Joins

LEMMA EventMarketsFit ==
    ASSUME NEW e, PriceFits(e) PROVE OffersFit(EventMarkets(e))
  <1>1. /\ e.homeMoney \in Int /\ e.awayMoney \in Int /\ e.homeLine \in Int /\ e.homeOdds \in Int
        /\ e.awayLine \in Int /\ e.awayOdds \in Int /\ e.total \in Int /\ e.overOdds \in Int
        /\ e.underOdds \in Int
    BY DEF PriceFits, EntryNumbers
  <1>2. NoLine \in Int BY DEF NoLine
  <1>3. {<<"moneyline", "home">>, <<"moneyline", "away">>, <<"spread", "home">>,
         <<"spread", "away">>, <<"total", "over">>, <<"total", "under">>} \subseteq MarketSides
    BY DEF MarketSides
  <1>4. /\ OffersFit(Offer("moneyline", "home", NoLine, e.homeMoney))
        /\ OffersFit(Offer("moneyline", "away", NoLine, e.awayMoney))
        /\ OffersFit(Offer("spread", "home", e.homeLine, e.homeOdds))
    BY <1>1, <1>2, <1>3, OfferIs
  <1>5. /\ OffersFit(Offer("spread", "away", e.awayLine, e.awayOdds))
        /\ OffersFit(Offer("total", "over", e.total, e.overOdds))
        /\ OffersFit(Offer("total", "under", e.total, e.underOdds))
    BY <1>1, <1>2, <1>3, OfferIs
  <1> QED BY <1>4, <1>5, OffersJoin DEF EventMarkets

LEMMA SummaryMarketsFit ==
    ASSUME NEW e, PriceFits(e) PROVE OffersFit(SummaryMarkets(e))
  <1>1. /\ e.spread \in Int /\ e.homeLine \in Int /\ e.overLine \in Int /\ e.underLine \in Int
        /\ e.overOdds \in Int /\ e.underOdds \in Int /\ e.total \in Int
    BY DEF PriceFits, EntryNumbers
  <1>2. PICK h : h = [e EXCEPT !.homeLine = IF @ = NoLine THEN e.spread ELSE @,
                               !.overOdds = NoOdds, !.underOdds = NoOdds] OBVIOUS
  <1>3. PriceFits(h)
    <2>1. DOMAIN h = DOMAIN e /\ h = [field \in DOMAIN h |-> h[field]] BY <1>2 DEF PriceFits
    <2>2. ASSUME NEW field \in EntryNumbers PROVE field \in DOMAIN h /\ h[field] \in Int
      <3>1. field \in DOMAIN e /\ e[field] \in Int BY DEF PriceFits
      <3>2. h[field] = IF field \in {"overOdds", "underOdds"} THEN NoOdds
                       ELSE IF field = "homeLine" THEN (IF e.homeLine = NoLine THEN e.spread ELSE e.homeLine)
                       ELSE e[field]
        BY <1>2, <3>1 DEF PriceFits
      <3> QED BY <1>1, <2>1, <3>1, <3>2 DEF NoOdds
    <2> QED BY <2>1, <2>2 DEF PriceFits
  <1>4. Or(e.overLine, e.total) \in Int /\ Or(e.underLine, e.total) \in Int BY <1>1 DEF Or
  <1>5. <<"total", "over">> \in MarketSides /\ <<"total", "under">> \in MarketSides
    BY DEF MarketSides
  <1>6. /\ OffersFit(EventMarkets(h))
        /\ OffersFit(Offer("total", "over", Or(e.overLine, e.total), e.overOdds))
        /\ OffersFit(Offer("total", "under", Or(e.underLine, e.total), e.underOdds))
    BY <1>1, <1>3, <1>4, <1>5, EventMarketsFit, OfferIs
  <1> QED BY <1>2, <1>6, OffersJoin DEF SummaryMarkets

LEMMA RowsOfFit ==
    ASSUME NEW markets, OffersFit(markets), NEW entry, PriceFits(entry),
           NEW g \in Games, NEW fetched \in Int
    PROVE  RecordsFit(RowsOf(markets, entry, g, fetched))
  <1>1. PICK rows : rows = RowsOf(markets, entry, g, fetched) OBVIOUS
  <1>2. Len(markets) \in Nat /\ DOMAIN markets = 1..Len(markets) BY DEF OffersFit, IsList
  <1>3. DOMAIN rows = 1..Len(markets) BY <1>1, <1>2 DEF RowsOf
  <1>4. rows = [i \in 1..Len(markets) |-> rows[i]] BY <1>1, <1>2 DEF RowsOf
  <1>5. Len(rows) = Len(markets) BY <1>2, <1>4
  <1>6. ASSUME NEW i \in 1..Len(markets) PROVE RecordFits(rows[i])
    <2>1. OfferFits(markets[i]) BY DEF OffersFit
    <2>2. entry.at \in Int BY DEF PriceFits, EntryNumbers
    <2>3. rows[i] = [event |-> g, market |-> markets[i].market, selection |-> markets[i].selection,
                     line |-> markets[i].line, odds |-> markets[i].odds, book |-> entry.book,
                     at |-> IF entry.at < 0 THEN fetched ELSE entry.at, fetched |-> fetched,
                     start |-> GameFacts[g].start]
      BY <1>1, <1>2 DEF RowsOf
    <2> QED BY <2>1, <2>2, <2>3 DEF RecordFits, OfferFits
  <1> QED BY <1>1, <1>2, <1>4, <1>5, <1>6 DEF RecordsFit, IsList

LEMMA RecordsJoin ==
    ASSUME NEW a, NEW b, RecordsFit(a), RecordsFit(b) PROVE RecordsFit(a \o b)
  <1>1. IsList(a) /\ IsList(b) BY DEF RecordsFit
  <1>2. PICK c : c = a \o b OBVIOUS
  <1>3. Joins(c, a, b) BY <1>1, <1>2, ListsJoin
  <1>4. Len(a) \in Nat /\ Len(b) \in Nat BY <1>1 DEF IsList
  <1>5. ASSUME NEW i \in 1..Len(c) PROVE RecordFits(c[i])
    <2>1. CASE i <= Len(a)
      <3>1. i \in 1..Len(a) BY <1>4, <2>1
      <3>2. c[i] = a[i] BY <1>3, <3>1 DEF Joins
      <3> QED BY <3>1, <3>2 DEF RecordsFit
    <2>2. CASE i > Len(a)
      <3>1. i - Len(a) \in 1..Len(b) /\ Len(a) + (i - Len(a)) = i BY <1>3, <1>4, <2>2 DEF Joins
      <3>2. c[i] = b[i - Len(a)] BY <1>3, <3>1 DEF Joins
      <3> QED BY <3>1, <3>2 DEF RecordsFit
    <2> QED BY <1>4, <2>1, <2>2
  <1> QED BY <1>2, <1>3, <1>5 DEF RecordsFit, Joins

\* The rows of one game after those of another.
LEMMA FlattenedFit ==
    ASSUME NEW seqs, IsList(seqs), \A i \in 1..Len(seqs) : RecordsFit(seqs[i])
    PROVE  RecordsFit(FlattenSeq(seqs))
  <1> DEFINE N == Len(seqs)
             Is(f, n) == f = [i \in 1..n |-> IF i = 1 THEN seqs[i] ELSE f[i - 1] \o seqs[i]]
             Some == {n \in Nat : \E f : Is(f, n)}
  <1>1. N \in Nat /\ DOMAIN seqs = 1..N BY DEF IsList
  <1>2. CASE N = 0
    <2>1. FlattenSeq(seqs) = seqs BY <1>2 DEF FlattenSeq
    <2>2. RecordsFit(seqs) BY <1>2 DEF RecordsFit
    <2> QED BY <2>1, <2>2
  <1>3. CASE N # 0
    <2>1. 0 \in Some
      <3>1. PICK g : g = [k \in 1..0 |-> seqs] OBVIOUS
      <3>2. Is(g, 0) BY <3>1
      <3> QED BY <3>2
    <2>2. ASSUME NEW n \in Nat, n \in Some PROVE n + 1 \in Some
      <3>1. PICK f : Is(f, n) BY <2>2
      <3>2. PICK g : g = [k \in 1..(n + 1) |-> IF k <= n THEN f[k]
                            ELSE IF k = 1 THEN seqs[k] ELSE f[n] \o seqs[k]] OBVIOUS
      <3>3. \A k \in 1..(n + 1) : g[k] = IF k = 1 THEN seqs[k] ELSE g[k - 1] \o seqs[k]
        <4> TAKE k \in 1..(n + 1)
        <4>1. CASE k <= n /\ k = 1
          <5>1. g[k] = f[k] /\ f[k] = seqs[k] BY <3>1, <3>2, <4>1
          <5> QED BY <4>1, <5>1
        <4>2. CASE k <= n /\ k # 1
          <5>1. g[k] = f[k] /\ g[k - 1] = f[k - 1] /\ k \in 1..n BY <3>2, <4>2
          <5>2. f[k] = f[k - 1] \o seqs[k] BY <3>1, <4>2, <5>1
          <5> QED BY <4>2, <5>1, <5>2
        <4>3. CASE k = n + 1 /\ k = 1
          <5>1. g[k] = seqs[k] BY <3>2, <4>3
          <5> QED BY <4>3, <5>1
        <4>4. CASE k = n + 1 /\ k # 1
          <5>1. n \in 1..(n + 1) /\ n <= n /\ ~(k <= n) /\ k - 1 = n BY <4>4
          <5>2. g[n] = f[n] /\ g[k] = f[n] \o seqs[k] BY <3>2, <4>4, <5>1
          <5> QED BY <4>4, <5>1, <5>2
        <4> QED BY <4>1, <4>2, <4>3, <4>4
      <3>4. g = [k \in 1..(n + 1) |-> g[k]] BY <3>2
      <3>5. Is(g, n + 1) BY <3>3, <3>4
      <3> HIDE DEF Is
      <3> QED BY <3>5
    <2>3. \E f : Is(f, N)
      <3>1. Nat \subseteq Some
        <4> HIDE DEF Some
        <4> QED BY <2>1, <2>2, CountingUp
      <3> QED BY <1>1, <3>1
    <2>4. FlattenSeq(seqs) = (CHOOSE f : Is(f, N))[N]
      <3>1. Len(seqs) # 0 BY <1>3
      <3> QED BY Zenon, <3>1 DEF FlattenSeq
    <2>5. PICK f : f = CHOOSE h : Is(h, N) OBVIOUS
    <2>6. Is(f, N)
      <3> HIDE DEF Is
      <3> QED BY <2>3, <2>5
    <2> DEFINE Fit == {n \in Nat : n + 1 <= N => RecordsFit(f[n + 1])}
    <2>7. 0 \in Fit
      <3>1. f[1] = seqs[1] /\ 1 \in 1..N BY <1>1, <1>3, <2>6
      <3>2. RecordsFit(f[0 + 1]) BY <3>1
      <3> QED BY <3>2
    <2>8. ASSUME NEW n \in Nat, n \in Fit PROVE n + 1 \in Fit
      <3> SUFFICES ASSUME (n + 1) + 1 <= N PROVE RecordsFit(f[(n + 1) + 1])
        OBVIOUS
      <3>1. PICK k \in Nat : k = (n + 1) + 1 OBVIOUS
      <3>2. k \in 1..N /\ k # 1 /\ k - 1 = n + 1 /\ n + 1 <= N BY <1>1, <3>1
      <3>3. f[k] = f[k - 1] \o seqs[k] BY <2>6, <3>2
      <3>4. RecordsFit(f[k - 1]) /\ RecordsFit(seqs[k]) BY <2>8, <3>2
      <3> QED BY <3>1, <3>3, <3>4, RecordsJoin
    <2>9. Nat \subseteq Fit
      <3> HIDE DEF Fit
      <3> QED BY <2>7, <2>8, CountingUp
    <2>10. RecordsFit(f[N])
      <3>1. N - 1 \in Nat /\ (N - 1) + 1 = N BY <1>1, <1>3
      <3>2. N - 1 \in Fit BY <2>9, <3>1
      <3>3. RecordsFit(f[(N - 1) + 1]) BY <1>1, <3>1, <3>2
      <3> QED BY <3>1, <3>3
    <2> HIDE DEF Is
    <2> QED BY <2>4, <2>5, <2>10
  <1> QED BY <1>2, <1>3

LEMMA RecordsTaken ==
    ASSUME NEW seq, RecordsFit(seq), NEW P \in SUBSET (1..Len(seq))
    PROVE  RecordsFit(At(seq, P))
  <1>1. PICK some : some = At(seq, P) OBVIOUS
  <1>2. TakesFrom(some, seq, P) BY <1>1, AtIs DEF RecordsFit
  <1>3. PICK k \in [1..Len(some) -> P] : \A i \in 1..Len(some) : some[i] = seq[k[i]]
    BY <1>2 DEF TakesFrom
  <1>4. ASSUME NEW i \in 1..Len(some) PROVE RecordFits(some[i])
    <2>1. k[i] \in 1..Len(seq) /\ some[i] = seq[k[i]] BY <1>3
    <2> QED BY <2>1 DEF RecordsFit
  <1> QED BY <1>1, <1>2, <1>4 DEF RecordsFit, TakesFrom

\* What each source answers is made rows of by its normaliser.
PostingFits(p) == IsList(p) /\ \A i \in 1..Len(p) : PriceFits(p[i])

LEMMA PostingsFit == ASSUME NEW p \in Postings PROVE PostingFits(p)
  <1>1. p \in Seq({p[i] : i \in DOMAIN p}) BY SportsCycleAssumption
  <1>2. IsList(p) BY <1>1 DEF IsList
  <1>3. ASSUME NEW i \in 1..Len(p) PROVE PriceFits(p[i])
    <2>1. i \in DOMAIN p BY <1>1
    <2> QED BY <2>1, SportsCycleAssumption DEF PriceFits, EntryNumbers
  <1> QED BY <1>2, <1>3 DEF PostingFits

LEMMA EventOddsFit ==
    ASSUME NEW p \in Postings, NEW g \in Games, NEW fetched \in Int
    PROVE  /\ RecordsFit(normalize_espn_odds_from_event(p, g, fetched))
           /\ RecordsFit(normalize_espn_summary_odds(p, g, fetched))
  <1>1. IsList(p) /\ \A i \in 1..Len(p) : PriceFits(p[i]) BY PostingsFit DEF PostingFits
  <1>2. Len(p) \in Nat /\ DOMAIN p = 1..Len(p) BY <1>1 DEF IsList
  <1>3. PICK s : s = [i \in DOMAIN p |-> RowsOf(EventMarkets(p[i]), p[i], g, fetched)] OBVIOUS
  <1>4. PICK t : t = [i \in DOMAIN p |-> RowsOf(SummaryMarkets(p[i]), p[i], g, fetched)] OBVIOUS
  <1>5. /\ IsList(s) /\ Len(s) = Len(p) /\ IsList(t) /\ Len(t) = Len(p)
    BY <1>2, <1>3, <1>4 DEF IsList
  <1>6. \A i \in 1..Len(s) : RecordsFit(s[i])
    BY <1>1, <1>2, <1>3, <1>5, EventMarketsFit, RowsOfFit
  <1>7. \A i \in 1..Len(t) : RecordsFit(t[i])
    BY <1>1, <1>2, <1>4, <1>5, SummaryMarketsFit, RowsOfFit
  <1> QED BY <1>3, <1>4, <1>5, <1>6, <1>7, FlattenedFit
          DEF normalize_espn_odds_from_event, normalize_espn_summary_odds

LEMMA PagesFit ==
    \A page \in OfficialPages :
        /\ page \in Seq({page[i] : i \in DOMAIN page})
        /\ \A i \in DOMAIN page :
              /\ page[i].event \in Games /\ <<page[i].market, page[i].selection>> \in MarketSides
              /\ {page[i].odds, page[i].line, page[i].at} \subseteq Int
  BY Zenon, SportsCycleAssumption

LEMMA OfficialOddsFit ==
    ASSUME NEW page \in OfficialPages, NEW fetched \in Int
    PROVE  RecordsFit(normalize_the_odds_api_payload(page, fetched))
  <1>1. page \in Seq({page[i] : i \in DOMAIN page}) BY SportsCycleAssumption
  <1>2. IsList(page) BY <1>1 DEF IsList
  <1>3. DOMAIN page = 1..Len(page) BY <1>1
  <1>4. PICK P : P = {i \in DOMAIN page : page[i].odds # NoOdds} OBVIOUS
  <1>5. P \in SUBSET (1..Len(page)) BY <1>3, <1>4
  <1>6. PICK priced : priced = At(page, P) OBVIOUS
  <1>7. TakesFrom(priced, page, P) BY <1>2, <1>5, <1>6, AtIs
  <1>8. PICK k \in [1..Len(priced) -> P] : \A i \in 1..Len(priced) : priced[i] = page[k[i]]
    BY <1>7 DEF TakesFrom
  <1>9. Len(priced) \in Nat /\ DOMAIN priced = 1..Len(priced) BY <1>7 DEF TakesFrom, IsList
  <1>10. PICK rows : rows = normalize_the_odds_api_payload(page, fetched) OBVIOUS
  <1>11. rows = [i \in DOMAIN priced |->
            [event |-> priced[i].event, market |-> priced[i].market,
             selection |-> priced[i].selection, line |-> priced[i].line,
             odds |-> priced[i].odds, book |-> priced[i].book, at |-> priced[i].at,
             fetched |-> fetched, start |-> GameFacts[priced[i].event].start]]
    BY <1>4, <1>6, <1>10 DEF normalize_the_odds_api_payload
  <1>12. IsList(rows) /\ Len(rows) = Len(priced) BY <1>9, <1>11 DEF IsList
  <1>13. ASSUME NEW i \in 1..Len(rows) PROVE RecordFits(rows[i])
    <2>1. i \in 1..Len(priced) /\ i \in DOMAIN priced BY <1>9, <1>12
    <2>2. k[i] \in DOMAIN page /\ priced[i] = page[k[i]] BY <1>3, <1>5, <1>8, <2>1
    <2>3. PICK o : o = priced[i] OBVIOUS
    <2>4. PICK j \in DOMAIN page : j = k[i] BY <2>2
    <2>5. /\ page[j].event \in Games /\ <<page[j].market, page[j].selection>> \in MarketSides
          /\ page[j].odds \in Int /\ page[j].line \in Int /\ page[j].at \in Int
      <3>1. /\ page[j].event \in Games /\ <<page[j].market, page[j].selection>> \in MarketSides
            /\ {page[j].odds, page[j].line, page[j].at} \subseteq Int
        BY PagesFit
      <3> QED BY <3>1
    <2>6. o = page[j] BY <2>2, <2>3, <2>4
    <2>7. /\ o.event \in Games /\ <<o.market, o.selection>> \in MarketSides
          /\ o.odds \in Int /\ o.line \in Int /\ o.at \in Int
      BY <2>5, <2>6
    <2>8. rows[i] = [event |-> o.event, market |-> o.market, selection |-> o.selection,
                     line |-> o.line, odds |-> o.odds, book |-> o.book, at |-> o.at,
                     fetched |-> fetched, start |-> GameFacts[o.event].start]
      BY <1>11, <2>1, <2>3
    <2> QED BY <2>7, <2>8 DEF RecordFits, OfferFits
  <1> QED BY <1>10, <1>12, <1>13 DEF RecordsFit

-----------------------------------------------------------------------------
\* What the log holds

RowShape(row) ==
    row = [event |-> row.event, market |-> row.market, selection |-> row.selection,
           line |-> row.line, odds |-> row.odds, book |-> row.book, at |-> row.at,
           fetched |-> row.fetched, start |-> row.start, time |-> row.time,
           confidence |-> row.confidence, state |-> row.state, outcome |-> row.outcome,
           closing |-> row.closing, clv |-> row.clv]
\* A prediction as it was posted before the game
RowPosted(row) ==
    /\ RowShape(row) /\ RecordFits(row)
    /\ row.time \in Nat /\ row.time < row.start /\ row.at < row.start
    /\ row.confidence \in 500..690 /\ row.closing \in Int
FreshRow(row) ==
    /\ RowPosted(row)
    /\ row.state = "unresolved" /\ row.outcome = "" /\ row.closing = NoOdds

LEMMA OddsAreProbability ==
    ASSUME NEW odds \in Int PROVE american_odds_implied_probability(odds) \in Int
  <1>1. CASE odds < 0
    <2>1. -odds * 1000 \in Int /\ -odds + 100 \in Nat \ {0} BY <1>1
    <2>2. \A a \in Int, b \in Nat \ {0} : a \div b \in Int OBVIOUS
    <2>3. (-odds * 1000) \div (-odds + 100) \in Int BY <2>1, <2>2
    <2> QED BY <1>1, <2>3 DEF american_odds_implied_probability
  <1>2. CASE ~(odds < 0)
    <2>1. odds + 100 \in Nat \ {0} BY <1>2
    <2>2. 100000 \div (odds + 100) \in Int BY <2>1
    <2> QED BY <1>2, <2>2 DEF american_odds_implied_probability
  <1> QED BY <1>1, <1>2

LEMMA ConfidenceIs == ASSUME NEW odds \in Int PROVE Confidence(odds) \in 500..690
  <1>1. PICK p \in Int : p = american_odds_implied_probability(odds) BY OddsAreProbability
  <1>2. PICK m : m = Max({500, p}) OBVIOUS
  <1>3. m \in Int /\ 500 <= m
    <2>1. m = CHOOSE x \in {500, p} : \A y \in {500, p} : x >= y BY <1>2 DEF Max
    <2>2. \E x \in {500, p} : \A y \in {500, p} : x >= y
      <3>1. CASE p <= 500 BY <3>1
      <3>2. CASE ~(p <= 500) BY <3>2
      <3> QED BY <3>1, <3>2
    <2>3. m \in {500, p} /\ \A y \in {500, p} : m >= y BY <2>1, <2>2
    <2> QED BY <2>3
  <1>4. Min({690, m}) = CHOOSE x \in {690, m} : \A y \in {690, m} : x <= y BY DEF Min
  <1>5. \E x \in {690, m} : \A y \in {690, m} : x <= y
    <2>1. CASE m <= 690 BY <1>3, <2>1
    <2>2. CASE ~(m <= 690) BY <1>3, <2>2
    <2> QED BY <2>1, <2>2
  <1>6. PICK n : n = Min({690, m}) OBVIOUS
  <1>7. n \in {690, m} /\ \A y \in {690, m} : n <= y BY <1>4, <1>5, <1>6
  <1>8. n \in 500..690 BY <1>3, <1>7
  <1> QED BY <1>1, <1>2, <1>6, <1>8 DEF Confidence

LEMMA CandidateFits ==
    ASSUME NEW r, RecordFits(r), NEW time \in Nat, Valid(Candidate(r, time))
    PROVE  FreshRow(Candidate(r, time)) /\ Candidate(r, time).time = time
  <1>1. PICK c : c = Candidate(r, time) OBVIOUS
  <1>2. c = [event |-> r.event, market |-> r.market, selection |-> r.selection,
             line |-> r.line, odds |-> r.odds, book |-> r.book, at |-> r.at,
             fetched |-> r.fetched, start |-> r.start, time |-> time,
             confidence |-> Confidence(r.odds), state |-> "unresolved", outcome |-> "",
             closing |-> NoOdds, clv |-> 0]
    BY <1>1 DEF Candidate
  <1>3. RowShape(c) BY <1>2 DEF RowShape
  <1>4. RecordFits(c) BY <1>2 DEF RecordFits, OfferFits
  <1>5. c.confidence \in 500..690
    <2>1. r.odds \in Int BY DEF RecordFits, OfferFits
    <2> QED BY <1>2, <2>1, ConfidenceIs
  <1>6. c.time < c.start /\ c.at < c.start BY <1>1 DEF Valid
  <1>7. c.closing = NoOdds /\ c.state = "unresolved" /\ c.outcome = "" /\ c.time = time
    BY Zenon, <1>2
  <1>8. NoOdds \in Int BY DEF NoOdds
  <1>9. c.time \in Nat /\ c.closing \in Int BY <1>7, <1>8
  <1>10. FreshRow(c) BY Zenon, <1>3, <1>4, <1>5, <1>6, <1>7, <1>9 DEF FreshRow, RowPosted
  <1> QED BY <1>1, <1>7, <1>10

\* The log after the first n records: nothing is changed, what is new is a valid candidate.
LogContinues(log, rows, time, n) ==
    /\ IsList(log) /\ Len(rows) <= Len(log) /\ Len(log) <= Len(rows) + n
    /\ \A i \in 1..Len(rows) : log[i] = rows[i]
    /\ \A i \in (Len(rows) + 1)..Len(log) : FreshRow(log[i]) /\ log[i].time = time

LEMMA RecordLogged ==
    ASSUME NEW rows, IsList(rows), NEW r, RecordFits(r), NEW time \in Nat, NEW n \in Nat,
           NEW log, LogContinues(log, rows, time, n), NEW next,
           LET c == Candidate(r, time)
           IN  next = IF Valid(c) /\ ~RepeatsLatest(log, c) THEN Append(log, c) ELSE log
    PROVE  LogContinues(next, rows, time, n + 1)
  <1>1. Len(rows) \in Nat /\ Len(log) \in Nat BY DEF IsList, LogContinues
  <1>2. CASE next = log BY <1>1, <1>2 DEF LogContinues
  <1>3. CASE next # log
    <2>1. PICK c : c = Candidate(r, time) OBVIOUS
    <2>2. Valid(c) /\ next = Append(log, c) BY <1>3, <2>1
    <2>3. FreshRow(c) /\ c.time = time BY <2>1, <2>2, CandidateFits
    <2>4. /\ IsList(next) /\ Len(next) = Len(log) + 1
          /\ \A i \in 1..Len(log) : next[i] = log[i]
          /\ next[Len(log) + 1] = c
      BY <2>2, AppendIs DEF LogContinues
    <2>5. ASSUME NEW i \in 1..Len(rows) PROVE next[i] = rows[i]
      <3>1. i \in 1..Len(log) BY <1>1 DEF LogContinues
      <3> QED BY <2>4, <3>1 DEF LogContinues
    <2>6. ASSUME NEW i \in (Len(rows) + 1)..Len(next) PROVE FreshRow(next[i]) /\ next[i].time = time
      <3>1. CASE i = Len(log) + 1 BY <2>3, <2>4, <3>1
      <3>2. CASE i # Len(log) + 1
        <4>1. i \in (Len(rows) + 1)..Len(log) /\ i \in 1..Len(log) BY <1>1, <2>4, <3>2
        <4> QED BY <2>4, <4>1 DEF LogContinues
      <3> QED BY <3>1, <3>2
    <2>7. Len(rows) <= Len(next) /\ Len(next) <= Len(rows) + (n + 1) BY <1>1, <2>4 DEF LogContinues
    <2> QED BY <2>4, <2>5, <2>6, <2>7 DEF LogContinues
  <1> QED BY <1>2, <1>3

LEMMA LoggedIs ==
    ASSUME NEW rows, IsList(rows), NEW records, RecordsFit(records), NEW time \in Nat
    PROVE  LogContinues(Logged(rows, records, time), rows, time, Len(records))
  <1> DEFINE Is(f, n) == f = [k \in 0..n |->
                 IF k = 0 THEN rows
                 ELSE LET c == Candidate(records[k], time)
                      IN  IF Valid(c) /\ ~RepeatsLatest(f[k - 1], c) THEN Append(f[k - 1], c)
                          ELSE f[k - 1]]
             Step(log, k) == LET c == Candidate(records[k], time)
                             IN  IF Valid(c) /\ ~RepeatsLatest(log, c) THEN Append(log, c) ELSE log
             Some == {n \in Nat : \E f : Is(f, n)}
  <1>1. Len(records) \in Nat BY DEF RecordsFit, IsList
  <1>0. \A f, n : Is(f, n) <=> f = [k \in 0..n |-> IF k = 0 THEN rows ELSE Step(f[k - 1], k)]
    OBVIOUS
  <1> HIDE DEF Is, Step
  <1>2. 0 \in Some
    <2>1. PICK g : g = [k \in 0..0 |-> rows] OBVIOUS
    <2>2. g = [k \in 0..0 |-> g[k]] /\ \A k \in 0..0 : k = 0 /\ g[k] = rows BY <2>1
    <2>3. Is(g, 0) BY <1>0, <2>2
    <2> QED BY <2>3
  <1>3. ASSUME NEW n \in Nat, n \in Some PROVE n + 1 \in Some
    <2>1. PICK f : f = [k \in 0..n |-> IF k = 0 THEN rows ELSE Step(f[k - 1], k)] BY <1>0, <1>3
    <2>2. PICK g : g = [k \in 0..(n + 1) |-> IF k <= n THEN f[k] ELSE Step(f[n], k)] OBVIOUS
    <2>3. \A k \in 0..(n + 1) : g[k] = IF k = 0 THEN rows ELSE Step(g[k - 1], k)
      <3> TAKE k \in 0..(n + 1)
      <3>1. CASE k = 0 BY <2>1, <2>2, <3>1
      <3>2. CASE k # 0 /\ k <= n
        <4>1. g[k] = f[k] /\ g[k - 1] = f[k - 1] /\ k \in 0..n BY <2>2, <3>2
        <4>2. f[k] = Step(f[k - 1], k) BY <2>1, <3>2, <4>1
        <4> QED BY <3>2, <4>1, <4>2
      <3>3. CASE k = n + 1
        <4>1. g[k] = Step(f[n], k) /\ g[k - 1] = f[n] /\ k # 0 BY <2>2, <3>3
        <4> QED BY <4>1
      <3> QED BY <3>1, <3>2, <3>3
    <2>4. g = [k \in 0..(n + 1) |-> g[k]] BY <2>2
    <2>5. Is(g, n + 1) BY <1>0, <2>3, <2>4
    <2> QED BY <2>5
  <1>4. \E f : Is(f, Len(records))
    <2>1. Nat \subseteq Some
      <3> HIDE DEF Some
      <3> QED BY <1>2, <1>3, CountingUp
    <2> QED BY <1>1, <2>1
  <1>5. Logged(rows, records, time) = (CHOOSE f : Is(f, Len(records)))[Len(records)]
    BY Zenon DEF Logged, Is
  <1>6. PICK f : f = CHOOSE h : Is(h, Len(records)) OBVIOUS
  <1>7. Is(f, Len(records)) BY <1>4, <1>6
  <1>8. f = [k \in 0..Len(records) |-> IF k = 0 THEN rows ELSE Step(f[k - 1], k)] BY <1>0, <1>7
  <1> DEFINE Grown == {n \in Nat : n <= Len(records) => LogContinues(f[n], rows, time, n)}
  <1>9. 0 \in Grown
    <2>1. f[0] = rows BY <1>1, <1>8
    <2>2. LogContinues(rows, rows, time, 0) BY DEF LogContinues, IsList
    <2> QED BY <2>1, <2>2
  <1>10. ASSUME NEW n \in Nat, n \in Grown PROVE n + 1 \in Grown
    <2> SUFFICES ASSUME n + 1 <= Len(records) PROVE LogContinues(f[n + 1], rows, time, n + 1)
      OBVIOUS
    <2>1. LogContinues(f[n], rows, time, n) BY <1>1, <1>10
    <2>2. n + 1 \in 0..Len(records) /\ n + 1 \in 1..Len(records) /\ (n + 1) - 1 = n /\ n + 1 # 0 BY <1>1
    <2>3. RecordFits(records[n + 1]) BY <2>2 DEF RecordsFit
    <2>4. f[n + 1] = Step(f[n], n + 1) BY <1>8, <2>2
    <2> QED BY <2>1, <2>3, <2>4, RecordLogged DEF Step
  <1>11. Nat \subseteq Grown
    <2> HIDE DEF Grown
    <2> QED BY <1>9, <1>10, CountingUp
  <1>12. LogContinues(f[Len(records)], rows, time, Len(records)) BY <1>1, <1>11
  <1> QED BY <1>5, <1>6, <1>12

-----------------------------------------------------------------------------
\* What a grade is

Grades == {<<"void", "postponed">>, <<"void", "canceled">>, <<"unresolved", "">>,
           <<"push", "push">>, <<"settled", "win">>, <<"settled", "loss">>}
ScoresFit(e) == e.home \in Int /\ e.away \in Int

\* By how much a bet is won
Margin(row, e) ==
    LET margin == IF row.selection = "home" THEN e.home - e.away ELSE e.away - e.home
    IN  CASE row.market = "moneyline" -> margin
          [] row.market = "spread" -> margin + row.line
          [] OTHER -> IF row.selection = "over" THEN e.home + e.away - row.line
                      ELSE row.line - e.home - e.away
Voided(e) == e.status \in {"postponed", "canceled", "cancelled"}

LEMMA GradeIs ==
    ASSUME NEW row, OfferFits(row), NEW e, ScoresFit(e)
    PROVE  /\ _grade_market(row, e) \in Grades
           /\ Voided(e) => _grade_market(row, e)[1] = "void"
           /\ ~Voided(e) /\ NoScore \in {e.home, e.away} => _grade_market(row, e) = <<"unresolved", "">>
           /\ ~Voided(e) /\ NoScore \notin {e.home, e.away} =>
                _grade_market(row, e) = Against(Margin(row, e))
  <1>1. PICK m : m = Margin(row, e) OBVIOUS
  <1>2. Against(m) \in {<<"push", "push">>, <<"settled", "win">>, <<"settled", "loss">>}
    BY DEF Against
  <1>3. CASE Voided(e)
    <2>1. e.status = "postponed" \/ e.status = "canceled" \/ e.status = "cancelled"
      BY <1>3 DEF Voided
    <2>2. CASE e.status = "postponed"
      <3>1. _grade_market(row, e) = <<"void", "postponed">> BY <2>2 DEF _grade_market
      <3> QED BY <1>3, <3>1 DEF Grades
    <2>3. CASE e.status \in {"canceled", "cancelled"}
      <3>1. _grade_market(row, e) = <<"void", "canceled">> BY <2>3 DEF _grade_market
      <3> QED BY <1>3, <3>1 DEF Grades
    <2> QED BY <2>1, <2>2, <2>3
  <1>4. CASE ~Voided(e) /\ NoScore \in {e.home, e.away}
    <2>1. _grade_market(row, e) = <<"unresolved", "">> BY <1>4 DEF _grade_market, Voided
    <2> QED BY <1>4, <2>1 DEF Grades
  <1>5. CASE ~Voided(e) /\ NoScore \notin {e.home, e.away}
    <2>1. _grade_market(row, e) =
             CASE row.market = "moneyline" ->
                      Against(IF row.selection = "home" THEN e.home - e.away ELSE e.away - e.home)
               [] row.market = "spread" ->
                      Against((IF row.selection = "home" THEN e.home - e.away ELSE e.away - e.home)
                              + row.line)
               [] OTHER -> Against(IF row.selection = "over" THEN e.home + e.away - row.line
                                   ELSE row.line - e.home - e.away)
      BY <1>5 DEF _grade_market, Voided
    <2>2. _grade_market(row, e) = Against(m)
      <3>1. CASE row.market = "moneyline" BY <1>1, <2>1, <3>1 DEF Margin
      <3>2. CASE row.market = "spread" BY <1>1, <2>1, <3>2 DEF Margin
      <3>3. CASE row.market # "moneyline" /\ row.market # "spread" BY <1>1, <2>1, <3>3 DEF Margin
      <3> QED BY <3>1, <3>2, <3>3
    <2> QED BY <1>1, <1>2, <1>5, <2>2 DEF Grades
  <1> QED BY <1>3, <1>4, <1>5

\* One side's margin is the other's loss.
Opposed(a, b) == /\ a.market = b.market /\ a.selection # b.selection
                 /\ a.market = "moneyline" \/ a.line = IF a.market = "spread" THEN -b.line ELSE b.line
LEMMA MarginsOpposed ==
    ASSUME NEW a, OfferFits(a), NEW b, OfferFits(b), Opposed(a, b), NEW e, ScoresFit(e)
    PROVE  /\ Margin(a, e) \in Int /\ Margin(b, e) \in Int
           /\ Margin(a, e) = -Margin(b, e)
  <1>1. /\ a.line \in Int /\ b.line \in Int /\ e.home \in Int /\ e.away \in Int
        /\ a.market = b.market
    BY DEF OfferFits, Opposed, ScoresFit
  <1>2. CASE a.market \in {"moneyline", "spread"}
    <2>1. a.selection \in {"home", "away"} /\ b.selection \in {"home", "away"}
      BY <1>1, <1>2 DEF OfferFits, MarketSides
    <2>2. a.selection # b.selection BY DEF Opposed
    <2>3. CASE a.selection = "home"
      <3>1. b.selection = "away" BY <2>1, <2>2, <2>3
      <3>2. CASE a.market = "moneyline" BY <1>1, <2>3, <3>1, <3>2 DEF Margin
      <3>3. CASE a.market = "spread"
        <4>1. a.line = -b.line BY <3>3 DEF Opposed
        <4>2. /\ Margin(a, e) = (e.home - e.away) + a.line /\ Margin(b, e) = (e.away - e.home) + b.line
          BY <1>1, <2>3, <3>1, <3>3 DEF Margin
        <4> QED BY <1>1, <4>1, <4>2
      <3> QED BY <1>2, <3>2, <3>3
    <2>4. CASE a.selection = "away"
      <3>1. b.selection = "home" BY <2>1, <2>2, <2>4
      <3>2. CASE a.market = "moneyline" BY <1>1, <2>4, <3>1, <3>2 DEF Margin
      <3>3. CASE a.market = "spread"
        <4>1. a.line = -b.line BY <3>3 DEF Opposed
        <4>2. /\ Margin(a, e) = (e.away - e.home) + a.line /\ Margin(b, e) = (e.home - e.away) + b.line
          BY <1>1, <2>4, <3>1, <3>3 DEF Margin
        <4> QED BY <1>1, <4>1, <4>2
      <3> QED BY <1>2, <3>2, <3>3
    <2> QED BY <2>1, <2>3, <2>4
  <1>3. CASE a.market \notin {"moneyline", "spread"}
    <2>1. a.selection \in {"over", "under"} /\ b.selection \in {"over", "under"}
      BY <1>1, <1>3 DEF OfferFits, MarketSides
    <2>2. a.selection # b.selection /\ a.line = b.line BY <1>3 DEF Opposed
    <2>3. CASE a.selection = "over"
      <3>1. b.selection # "over" BY <2>1, <2>2, <2>3
      <3>2. Margin(a, e) = e.home + e.away - a.line /\ Margin(b, e) = b.line - e.home - e.away
        BY <1>1, <1>3, <2>3, <3>1 DEF Margin
      <3> QED BY <1>1, <2>2, <3>2
    <2>4. CASE a.selection # "over"
      <3>1. b.selection = "over" BY <2>1, <2>2, <2>4
      <3>2. Margin(b, e) = e.home + e.away - b.line /\ Margin(a, e) = a.line - e.home - e.away
        BY <1>1, <1>3, <2>4, <3>1 DEF Margin
      <3> QED BY <1>1, <2>2, <3>2
    <2> QED BY <2>3, <2>4
  <1> QED BY <1>2, <1>3

LEMMA GradesOpposed ==
    ASSUME NEW a, OfferFits(a), NEW b, OfferFits(b), NEW e, ScoresFit(e),
           _grade_market(a, e)[1] \in Graded, _grade_market(b, e)[1] \in Graded
    PROVE  /\ (_grade_market(a, e)[1] = "void") = (_grade_market(b, e)[1] = "void")
           /\ Opposed(a, b) /\ _grade_market(a, e)[1] # "void" =>
                {_grade_market(a, e)[2], _grade_market(b, e)[2]} \in {{"win", "loss"}, {"push"}}
  <1>1. "unresolved" \notin Graded BY DEF Graded
  <1>2. CASE Voided(e)
    <2>1. _grade_market(a, e)[1] = "void" /\ _grade_market(b, e)[1] = "void" BY <1>2, GradeIs
    <2> QED BY <2>1
  <1>3. CASE ~Voided(e) /\ NoScore \in {e.home, e.away}
    <2>1. PICK grade : grade = _grade_market(a, e) OBVIOUS
    <2>2. grade = <<"unresolved", "">> BY <1>3, <2>1, GradeIs
    <2>3. grade[1] = "unresolved" BY <2>2
    <2>4. FALSE BY Zenon, <1>1, <2>1, <2>3
    <2> QED BY <2>4
  <1>4. CASE ~Voided(e) /\ NoScore \notin {e.home, e.away}
    <2>1. PICK m, n : m = Margin(a, e) /\ n = Margin(b, e) OBVIOUS
    <2>2. _grade_market(a, e) = Against(m) /\ _grade_market(b, e) = Against(n) BY <1>4, <2>1, GradeIs
    <2>3. Against(m)[1] # "void" /\ Against(n)[1] # "void" BY DEF Against
    <2>4. ASSUME Opposed(a, b) PROVE {Against(m)[2], Against(n)[2]} \in {{"win", "loss"}, {"push"}}
      <3>1. m \in Int /\ n \in Int /\ m = -n BY <2>1, <2>4, MarginsOpposed
      <3>2. CASE m = 0
        <4>1. Against(m)[2] = "push" /\ Against(n)[2] = "push" BY <3>1, <3>2 DEF Against
        <4> QED BY <4>1
      <3>3. CASE m > 0
        <4>1. n # 0 /\ ~(n > 0) /\ m # 0 BY <3>1, <3>3
        <4>2. Against(m)[2] = "win" /\ Against(n)[2] = "loss" BY <3>3, <4>1 DEF Against
        <4> QED BY <4>2
      <3>4. CASE m < 0
        <4>1. n # 0 /\ n > 0 /\ m # 0 /\ ~(m > 0) BY <3>1, <3>4
        <4>2. Against(m)[2] = "loss" /\ Against(n)[2] = "win" BY <4>1 DEF Against
        <4> QED BY <4>2
      <3> QED BY <3>1, <3>2, <3>3, <3>4
    <2> QED BY <2>2, <2>3, <2>4
  <1> QED BY <1>2, <1>3, <1>4

LEMMA DaysFollow ==
    ASSUME NEW a \in Nat, NEW b \in Nat, a <= b
    PROVE  DayOf(a) \in Nat /\ DayOf(b) \in Nat /\ DayOf(a) <= DayOf(b)
  <1>1. DayLength \in Nat \ {0} BY SportsCycleAssumption
  <1>2. \A L \in Nat \ {0} : a \div L \in Nat /\ b \div L \in Nat OBVIOUS
  <1>3. \A L \in Nat \ {0} : a \div L <= b \div L OBVIOUS
  <1> QED BY <1>1, <1>2, <1>3 DEF DayOf

-----------------------------------------------------------------------------
\* The invariant

CycleFields == {"pc", "settings", "evidence", "records", "finals", "rejects", "errors", "asked",
              "schedule", "caught", "began", "payload", "batch", "logged", "refused"}
Stages == {"official", "scoreboard", "blocked", "prior", "summary", "collected", "logging",
           "finishing", "settling", "closing", "reporting"}

\* What a scoreboard says of a game that is over
FinalOf(e) ==
    [status |-> IF e.completed THEN "final" ELSE e.status, home |-> e.home, away |-> e.away]
EndingFits(e, clock) ==
    /\ e.completed \in BOOLEAN /\ ScoresFit(e) /\ e.since \in Int /\ e.since <= clock
    /\ e = NoEnding \/ [e EXCEPT !.since = 0] \in Endings
WorldFits(world, clock) ==
    world = [g \in Games |-> world[g]] /\ \A g \in Games : EndingFits(world[g], clock)

FinalsFit(finals, world) ==
    \A g \in DOMAIN finals : /\ g \in Games /\ IsFinal(world[g])
                             /\ finals[g] = FinalOf(world[g])
\* The finals of every game of these days that had ended before a time
Covered(finals, world, from, to, before) ==
    \A g \in Games : /\ from <= DayOf(GameFacts[g].start) /\ DayOf(GameFacts[g].start) <= to
                     /\ IsFinal(world[g]) /\ world[g].since < before
                     => g \in DOMAIN finals

PayloadFits(p, clock, world) ==
    /\ RecordsFit(p.records) /\ FinalsFit(p.finals, world)
    /\ p.at \in Nat /\ p.at <= clock /\ p.rejects \in Nat

RunTyped(r, clock, world, batches) ==
    /\ r = [f \in CycleFields |-> r[f]]
    /\ r.pc \in Stages /\ r.settings \in CycleSettings /\ r.caught \in BOOLEAN
    /\ r.began \in Nat /\ r.began <= clock
    /\ r.rejects \in Nat /\ r.asked \in Nat /\ r.logged \in Nat /\ r.refused \in Nat
    /\ RecordsFit(r.records) /\ FinalsFit(r.finals, world) /\ PayloadFits(r.payload, clock, world)
    /\ IsList(r.schedule) /\ \A i \in 1..Len(r.schedule) : r.schedule[i] \in Games
    /\ r.batch \in 0..batches
    /\ r.pc \in {"logging", "finishing", "settling", "closing", "reporting"} => r.batch > 0

RunCovers(r, clock, world) ==
    /\ r.pc = "prior" =>
          /\ r.asked < r.settings.lookback
          /\ r.caught => Covered(r.finals, world, DayOf(clock) - r.asked, DayOf(r.began), r.began)
    /\ r.pc = "summary" =>
          /\ r.asked < Len(r.schedule) /\ r.asked < r.settings.summaries
          /\ r.caught => Covered(r.finals, world, DayOf(clock) - r.settings.lookback,
                                 DayOf(r.began), r.began)
    /\ /\ r.pc \in {"collected", "logging", "finishing", "settling", "closing"}
       /\ r.payload.mode = "public" /\ r.caught
       => Covered(r.payload.finals, world, DayOf(r.payload.at) - r.settings.lookback,
                  DayOf(r.began), r.began)

RunCounts(r, rows) ==
    r.pc = "finishing" => /\ Len(r.payload.records) + r.payload.rejects = r.logged + r.refused
                          /\ r.logged <= Len(rows)
RunSettles(r, rows, world) ==
    r.pc = "closing" =>
        \A i \in 1..Len(rows) :
            /\ rows[i].event \in DOMAIN r.payload.finals
            /\ NoScore \notin {world[rows[i].event].home, world[rows[i].event].away}
            => rows[i].state # "unresolved"
RunFits(r, clock, world, rows, batches) ==
    /\ RunTyped(r, clock, world, batches) /\ RunCovers(r, clock, world)
    /\ RunCounts(r, rows) /\ RunSettles(r, rows, world)

RowFits(row, world) ==
    /\ RowPosted(row)
    /\ \/ row.state = "unresolved" /\ row.outcome = ""
       \/ /\ IsFinal(world[row.event]) /\ row.state \in Graded
          /\ <<row.state, row.outcome>> = _grade_market(row, FinalOf(world[row.event]))
SportsRowsFit(rows, world) == IsList(rows) /\ \A i \in 1..Len(rows) : RowFits(rows[i], world)

BatchFits(b) ==
    /\ b = [f \in {"evidence", "status", "received", "accepted", "rejected"} |-> b[f]]
    /\ b.status \in {"started", "completed", "completed_with_rejections", "failed", "blocked"}
    /\ b.accepted \in Nat
    /\ b.status = "started" => b.accepted = 0
    /\ b.status \in {"completed", "completed_with_rejections"} =>
          b.received = b.accepted + b.rejected
\* The rows that each batch accepted, none of them twice, are among the first n.
RowsClaimed(batches, n) ==
    \E part \in [1..Len(batches) -> SUBSET (1..n)] :
        /\ \A i, j \in 1..Len(batches) : i # j => part[i] \cap part[j] = {}
        /\ \A i \in 1..Len(batches) : Cardinality(part[i]) = batches[i].accepted
BatchesFit(batches) == IsList(batches) /\ \A i \in 1..Len(batches) : BatchFits(batches[i])
\* The rows that no batch may have claimed yet are those of a run about to finish its batch.
Claimable(run, rows) == Len(rows) - (IF run.pc = "finishing" THEN run.logged ELSE 0)

ClosesFit(rows, clock) ==
    \A i \in 1..Len(rows) : rows[i].closing # NoOdds =>
        /\ \E j \in 1..Len(rows) :
              /\ PickOf(rows[j]) = PickOf(rows[i]) /\ rows[j].book = rows[i].book
              /\ rows[j].odds = rows[i].closing /\ rows[j].start <= clock
              /\ rows[i].at <= rows[j].at /\ rows[j].at < rows[j].start
        /\ \A j \in 1..Len(rows) :
              /\ PickOf(rows[j]) = PickOf(rows[i]) /\ rows[j].book = rows[i].book
              /\ rows[j].closing # NoOdds
              => rows[j].closing = rows[i].closing

OfState(rows, states) == {i \in 1..Len(rows) : rows[i].state \in states}
OfOutcome(rows, outcome) == {i \in OfState(rows, Graded) : rows[i].outcome = outcome}
Picks(rows, ids) == {PickOf(rows[i]) : i \in ids}
\* No report says more than the log does.
TotalsFit(report, rows, rejected) ==
    /\ report = [f \in DOMAIN NoTotals |-> report[f]]
    /\ report.total <= Len(rows) /\ report.rejected <= rejected
    /\ report.settled <= Cardinality(OfState(rows, Graded))
    /\ report.exposures <= Cardinality(Picks(rows, 1..Len(rows)))
    /\ report.deduped <= Cardinality(Picks(rows, OfState(rows, Graded)))
    /\ report.wins <= Cardinality(Picks(rows, OfOutcome(rows, "win")))
    /\ report.losses <= Cardinality(Picks(rows, OfOutcome(rows, "loss")))
    /\ report.pushes <= Cardinality(OfState(rows, {"push"}))
    /\ report.voids <= Cardinality(OfState(rows, {"void"}))
    /\ \A f \in DOMAIN NoTotals : report[f] \in Nat

SportsInv ==
    /\ scClock \in Nat /\ scClock <= MaxScClock
    /\ WorldFits(scWorld, scClock)
    /\ SportsRowsFit(scRows, scWorld) /\ scRejected \in Nat
    /\ BatchesFit(scBatches) /\ RowsClaimed(scBatches, Claimable(scRun, scRows))
    /\ scRun = NoSportsCycle \/ RunFits(scRun, scClock, scWorld, scRows, Len(scBatches))
    /\ ClosesFit(scRows, scClock)
    /\ TotalsFit(scReport, scRows, scRejected)
    /\ FixturesKeepTheirTeams

-----------------------------------------------------------------------------
\* The start

LEMMA SportsStarts == scInit => SportsInv
  <1> SUFFICES ASSUME scInit PROVE SportsInv
    OBVIOUS
  <1>1. scClock \in Nat /\ scClock <= MaxScClock BY SportsCycleAssumption DEF scInit
  <1>2. WorldFits(scWorld, scClock)
    <2>1. scWorld = [g \in Games |-> NoEnding] /\ scClock = 0 BY DEF scInit
    <2>2. EndingFits(NoEnding, 0) BY DEF EndingFits, NoEnding, ScoresFit, NoScore
    <2> QED BY <2>1, <2>2 DEF WorldFits
  <1>3. scRows = <<>> /\ Len(scRows) = 0 /\ scBatches = <<>> /\ Len(scBatches) = 0 BY DEF scInit
  <1>4. SportsRowsFit(scRows, scWorld) /\ BatchesFit(scBatches) /\ ClosesFit(scRows, scClock)
    BY <1>3 DEF SportsRowsFit, BatchesFit, ClosesFit, IsList
  <1>5. scRun = NoSportsCycle /\ scRun.pc = "idle" BY DEF scInit, NoSportsCycle
  <1>6. RowsClaimed(scBatches, Claimable(scRun, scRows))
    <2>1. PICK part : part = [i \in 1..Len(scBatches) |-> {}] OBVIOUS
    <2>2. 1..Len(scBatches) = {} BY <1>3
    <2>3. part \in [1..Len(scBatches) -> SUBSET (1..Claimable(scRun, scRows))] BY <2>1
    <2> QED BY <2>2, <2>3 DEF RowsClaimed
  <1>7. TotalsFit(scReport, scRows, scRejected)
    <2>1. scReport = NoTotals /\ scRejected = 0 BY DEF scInit
    <2>2. /\ OfState(scRows, Graded) = {} /\ OfOutcome(scRows, "win") = {}
          /\ OfOutcome(scRows, "loss") = {} /\ OfState(scRows, {"push"}) = {}
          /\ OfState(scRows, {"void"}) = {}
      BY <1>3 DEF OfState, OfOutcome
    <2>3. /\ Picks(scRows, 1..Len(scRows)) = {} /\ Picks(scRows, {}) = {}
      BY <1>3 DEF Picks
    <2>4. Cardinality({}) = 0 BY FS_EmptySet
    <2>5. NoTotals = [f \in DOMAIN NoTotals |-> 0] BY DEF NoTotals
    <2>6. \A f \in DOMAIN NoTotals : NoTotals[f] = 0 BY <2>5
    <2>7. /\ NoTotals.total = 0 /\ NoTotals.rejected = 0 /\ NoTotals.settled = 0
          /\ NoTotals.exposures = 0 /\ NoTotals.deduped = 0 /\ NoTotals.wins = 0
          /\ NoTotals.losses = 0 /\ NoTotals.pushes = 0 /\ NoTotals.voids = 0
      BY DEF NoTotals
    <2>8. NoTotals = [f \in DOMAIN NoTotals |-> NoTotals[f]] BY <2>5
    <2>9. /\ Cardinality(OfState(scRows, Graded)) = 0
          /\ Cardinality(Picks(scRows, 1..Len(scRows))) = 0
          /\ Cardinality(Picks(scRows, OfState(scRows, Graded))) = 0
          /\ Cardinality(Picks(scRows, OfOutcome(scRows, "win"))) = 0
          /\ Cardinality(Picks(scRows, OfOutcome(scRows, "loss"))) = 0
          /\ Cardinality(OfState(scRows, {"push"})) = 0
          /\ Cardinality(OfState(scRows, {"void"})) = 0
      BY Zenon, <2>2, <2>3, <2>4
    <2>10. \A f \in DOMAIN NoTotals : scReport[f] \in Nat BY <2>1, <2>6
    <2>11. scReport = [f \in DOMAIN NoTotals |-> scReport[f]] BY Zenon, <2>1, <2>8
    <2>12. /\ scReport.total <= Len(scRows) /\ scReport.rejected <= scRejected
           /\ scReport.settled <= 0 /\ scReport.exposures <= 0 /\ scReport.deduped <= 0
           /\ scReport.wins <= 0 /\ scReport.losses <= 0 /\ scReport.pushes <= 0
           /\ scReport.voids <= 0
      BY <1>3, <2>1, <2>7
    <2> QED BY Zenon, <2>9, <2>10, <2>11, <2>12 DEF TotalsFit
  <1>8. FixturesKeepTheirTeams BY DEF scInit, FixturesKeepTheirTeams
  <1>9. scRejected \in Nat BY DEF scInit
  <1> QED BY <1>1, <1>2, <1>4, <1>5, <1>6, <1>7, <1>8, <1>9 DEF SportsInv

-----------------------------------------------------------------------------
\* Time passes and games end

LEMMA ClaimsSpread ==
    ASSUME NEW batches, NEW m \in Int, NEW n \in Int, m <= n, RowsClaimed(batches, m)
    PROVE  RowsClaimed(batches, n)
  <1>1. PICK part \in [1..Len(batches) -> SUBSET (1..m)] :
           /\ \A i, j \in 1..Len(batches) : i # j => part[i] \cap part[j] = {}
           /\ \A i \in 1..Len(batches) : Cardinality(part[i]) = batches[i].accepted
    BY DEF RowsClaimed
  <1>2. 1..m \subseteq 1..n OBVIOUS
  <1>3. part \in [1..Len(batches) -> SUBSET (1..n)] BY <1>1, <1>2
  <1> QED BY <1>1, <1>3 DEF RowsClaimed

\* A game that is over stays as it ended, and what ends now has ended since now.
WorldGoesOn(old, new, clock) ==
    \A g \in Games : /\ IsFinal(old[g]) => new[g] = old[g]
                     /\ new[g] # old[g] => new[g].since = clock

LEMMA CoverageStays ==
    ASSUME NEW old, NEW new, NEW clock \in Nat, WorldGoesOn(old, new, clock),
           NEW finals, NEW from \in Int, NEW from2 \in Int, from <= from2, NEW to, NEW before \in Nat,
           before <= clock, Covered(finals, old, from, to, before)
    PROVE  Covered(finals, new, from2, to, before)
  <1> SUFFICES ASSUME NEW g \in Games, from2 <= DayOf(GameFacts[g].start),
                      DayOf(GameFacts[g].start) <= to, IsFinal(new[g]), new[g].since < before
               PROVE  g \in DOMAIN finals
    BY DEF Covered
  <1>1. GameFacts[g].start \in Nat BY SportsCycleAssumption
  <1>2. DayOf(GameFacts[g].start) \in Nat BY <1>1, DaysFollow
  <1>3. from <= DayOf(GameFacts[g].start) BY <1>2
  <1>4. new[g].since # clock BY DEF WorldGoesOn
  <1>5. new[g] = old[g] BY <1>4 DEF WorldGoesOn
  <1> QED BY <1>3, <1>5 DEF Covered

LEMMA FinalsStay ==
    ASSUME NEW old, NEW new, NEW clock, WorldGoesOn(old, new, clock),
           NEW finals, FinalsFit(finals, old)
    PROVE  FinalsFit(finals, new)
  <1>1. \A g \in DOMAIN finals : g \in Games /\ IsFinal(old[g]) /\ new[g] = old[g]
    BY DEF FinalsFit, WorldGoesOn
  <1> QED BY <1>1 DEF FinalsFit

LEMMA RowsStay ==
    ASSUME NEW old, NEW new, NEW clock, WorldGoesOn(old, new, clock),
           NEW rows, SportsRowsFit(rows, old)
    PROVE  SportsRowsFit(rows, new)
  <1>1. ASSUME NEW i \in 1..Len(rows) PROVE RowFits(rows[i], new)
    <2>1. RowFits(rows[i], old) BY DEF SportsRowsFit
    <2>2. rows[i].event \in Games BY <2>1 DEF RowFits, RowPosted, RecordFits
    <2>3. IsFinal(old[rows[i].event]) => new[rows[i].event] = old[rows[i].event]
      BY <2>2 DEF WorldGoesOn
    <2> QED BY <2>1, <2>3 DEF RowFits
  <1> QED BY <1>1 DEF SportsRowsFit

LEMMA CycleGoesOn ==
    ASSUME NEW clock \in Nat, NEW clock2 \in Nat, clock <= clock2,
           NEW old, NEW new, WorldGoesOn(old, new, clock),
           NEW r, NEW rows, SportsRowsFit(rows, old), NEW batches, RunFits(r, clock, old, rows, batches)
    PROVE  RunFits(r, clock2, new, rows, batches)
  <1>1. RunTyped(r, clock, old, batches) BY DEF RunFits
  <1>2. FinalsFit(r.finals, new) /\ FinalsFit(r.payload.finals, new)
    <2>1. FinalsFit(r.finals, old) /\ FinalsFit(r.payload.finals, old)
      BY <1>1 DEF RunTyped, PayloadFits
    <2> QED BY <2>1, FinalsStay
  <1>3. PayloadFits(r.payload, clock2, new)
    <2>1. PayloadFits(r.payload, clock, old) BY <1>1 DEF RunTyped
    <2> QED BY <1>2, <2>1 DEF PayloadFits
  <1>4. RunTyped(r, clock2, new, batches)
    <2>1. r.began <= clock2 BY <1>1 DEF RunTyped
    <2> QED BY <1>1, <1>2, <1>3, <2>1 DEF RunTyped
  <1>5. RunCovers(r, clock2, new)
    <2>1. /\ r.began \in Nat /\ r.began <= clock /\ r.asked \in Nat /\ r.payload.at \in Nat
          /\ r.settings \in CycleSettings
      BY <1>1 DEF RunTyped, PayloadFits
    <2>2. r.settings.lookback \in Nat
      <3>1. \A s \in CycleSettings : s.lookback \in 0..7
        BY SportsCycleAssumption, Zenon DEF SportsCycleAssumption
      <3> QED BY <2>1, <3>1
    <2>3. DayOf(clock) \in Nat /\ DayOf(clock2) \in Nat /\ DayOf(clock) <= DayOf(clock2)
      BY DaysFollow
    <2>4. DayOf(r.payload.at) \in Nat BY <2>1, DaysFollow
    <2>5. RunCovers(r, clock, old) BY DEF RunFits
    <2>6. ASSUME NEW finals, NEW n \in Nat,
                 Covered(finals, old, DayOf(clock) - n, DayOf(r.began), r.began)
          PROVE  Covered(finals, new, DayOf(clock2) - n, DayOf(r.began), r.began)
      <3>1. DayOf(clock) - n \in Int /\ DayOf(clock2) - n \in Int /\ DayOf(clock) - n <= DayOf(clock2) - n
        BY <2>3
      <3> QED BY <2>1, <2>6, <3>1, CoverageStays
    <2>7. ASSUME Covered(r.payload.finals, old, DayOf(r.payload.at) - r.settings.lookback,
                         DayOf(r.began), r.began)
          PROVE  Covered(r.payload.finals, new, DayOf(r.payload.at) - r.settings.lookback,
                         DayOf(r.began), r.began)
      <3>1. DayOf(r.payload.at) - r.settings.lookback \in Int BY <2>2, <2>4
      <3> QED BY <2>1, <2>7, <3>1, CoverageStays
    <2> QED BY <2>1, <2>2, <2>5, <2>6, <2>7 DEF RunCovers
  <1>6. RunSettles(r, rows, new)
    <2> SUFFICES ASSUME r.pc = "closing", NEW i \in 1..Len(rows),
                        rows[i].event \in DOMAIN r.payload.finals,
                        NoScore \notin {new[rows[i].event].home, new[rows[i].event].away}
                 PROVE  rows[i].state # "unresolved"
      BY DEF RunSettles
    <2>1. FinalsFit(r.payload.finals, old) BY <1>1 DEF RunTyped, PayloadFits
    <2>2. rows[i].event \in Games /\ IsFinal(old[rows[i].event]) BY <2>1 DEF FinalsFit
    <2>3. new[rows[i].event] = old[rows[i].event] BY <2>2 DEF WorldGoesOn
    <2>4. RunSettles(r, rows, old) BY DEF RunFits
    <2> QED BY <2>3, <2>4 DEF RunSettles
  <1>7. RunCounts(r, rows) BY DEF RunFits
  <1> QED BY <1>4, <1>5, <1>6, <1>7 DEF RunFits

LEMMA ClosesStay ==
    ASSUME NEW rows, NEW world, SportsRowsFit(rows, world), NEW clock \in Nat, NEW clock2 \in Nat,
           clock <= clock2, ClosesFit(rows, clock)
    PROVE  ClosesFit(rows, clock2)
  <1> SUFFICES ASSUME NEW i \in 1..Len(rows), rows[i].closing # NoOdds
               PROVE  \E j \in 1..Len(rows) :
                         /\ PickOf(rows[j]) = PickOf(rows[i]) /\ rows[j].book = rows[i].book
                         /\ rows[j].odds = rows[i].closing /\ rows[j].start <= clock2
                         /\ rows[i].at <= rows[j].at /\ rows[j].at < rows[j].start
    BY DEF ClosesFit
  <1>1. PICK j \in 1..Len(rows) :
           /\ PickOf(rows[j]) = PickOf(rows[i]) /\ rows[j].book = rows[i].book
           /\ rows[j].odds = rows[i].closing /\ rows[j].start <= clock
           /\ rows[i].at <= rows[j].at /\ rows[j].at < rows[j].start
    BY DEF ClosesFit
  <1>2. rows[j].event \in Games /\ rows[j].start = GameFacts[rows[j].event].start
    <2>1. RowFits(rows[j], world) BY Zenon DEF SportsRowsFit
    <2>2. RecordFits(rows[j]) BY <2>1, Zenon DEF RowFits, RowPosted
    <2> QED BY <2>2, Zenon DEF RecordFits
  <1>3. rows[j].start \in Nat BY <1>2, SportsCycleAssumption
  <1>4. rows[j].start <= clock2 BY <1>1, <1>3
  <1> QED BY <1>1, <1>4

\* The clock or the world goes on, nothing else does.
LEMMA TimeGoesOn ==
    ASSUME SportsInv, scClock' \in Nat, scClock <= scClock', scClock' <= MaxScClock,
           WorldFits(scWorld', scClock'), WorldGoesOn(scWorld, scWorld', scClock),
           UNCHANGED <<scRows, scRejected, scBatches, scCycle, scRun, scReport, scMatch>>
    PROVE  SportsInv'
  <1>1. scClock \in Nat /\ SportsRowsFit(scRows, scWorld) BY DEF SportsInv
  <1>2. SportsRowsFit(scRows, scWorld') BY <1>1, RowsStay
  <1>3. scRun = NoSportsCycle \/ RunFits(scRun, scClock', scWorld', scRows, Len(scBatches))
    <2>1. CASE RunFits(scRun, scClock, scWorld, scRows, Len(scBatches)) BY <1>1, <2>1, CycleGoesOn
    <2> QED BY <2>1 DEF SportsInv
  <1>4. ClosesFit(scRows, scClock') BY <1>1, ClosesStay DEF SportsInv
  <1>5. FixturesKeepTheirTeams' BY DEF SportsInv, FixturesKeepTheirTeams
  <1>6. /\ scRows' = scRows /\ scRejected' = scRejected /\ scBatches' = scBatches
        /\ scRun' = scRun /\ scReport' = scReport
    OBVIOUS
  <1>7. /\ SportsRowsFit(scRows', scWorld') /\ scRejected' \in Nat /\ BatchesFit(scBatches')
        /\ RowsClaimed(scBatches', Claimable(scRun', scRows'))
        /\ ClosesFit(scRows', scClock') /\ TotalsFit(scReport', scRows', scRejected')
        /\ scRun' = NoSportsCycle \/ RunFits(scRun', scClock', scWorld', scRows', Len(scBatches'))
    BY <1>2, <1>3, <1>4, <1>6 DEF SportsInv
  <1> QED BY <1>5, <1>7 DEF SportsInv

LEMMA SportsTickKeeps == SportsInv /\ SportsTick => SportsInv'
  <1> SUFFICES ASSUME SportsInv, SportsTick PROVE SportsInv'
    OBVIOUS
  <1>1. /\ scClock \in Nat /\ scClock' = scClock + 1 /\ scClock < MaxScClock
        /\ scWorld' = scWorld
        /\ UNCHANGED <<scRows, scRejected, scBatches, scCycle, scRun, scReport, scMatch>>
    BY DEF SportsInv, SportsTick
  <1>2. scClock' \in Nat /\ scClock <= scClock' /\ scClock' <= MaxScClock
    BY <1>1, SportsCycleAssumption
  <1>3. WorldFits(scWorld', scClock')
    <2>1. ASSUME NEW g \in Games PROVE EndingFits(scWorld[g], scClock')
      <3>1. EndingFits(scWorld[g], scClock) BY DEF SportsInv, WorldFits
      <3>2. scWorld[g].since <= scClock' BY <1>1, <1>2, <3>1 DEF EndingFits
      <3> QED BY <3>1, <3>2 DEF EndingFits
    <2>2. scWorld = [g \in Games |-> scWorld[g]] BY DEF SportsInv, WorldFits
    <2> QED BY <1>1, <2>1, <2>2 DEF WorldFits
  <1>4. WorldGoesOn(scWorld, scWorld', scClock) BY <1>1 DEF WorldGoesOn
  <1> QED BY <1>1, <1>2, <1>3, <1>4, TimeGoesOn

LEMMA GameEndsKeeps ==
    ASSUME SportsInv, NEW g \in Games, NEW e \in Endings, GameEnds(g, e)
    PROVE  SportsInv'
  <1>1. /\ scClock \in Nat /\ scClock <= MaxScClock /\ scClock' = scClock
        /\ scWorld[g] = NoEnding
        /\ scWorld' = [scWorld EXCEPT ![g] = [e EXCEPT !.since = scClock]]
        /\ UNCHANGED <<scRows, scRejected, scBatches, scCycle, scRun, scReport, scMatch>>
    BY DEF SportsInv, GameEnds
  <1>2. e = [status |-> e.status, completed |-> e.completed, home |-> e.home,
             away |-> e.away, since |-> 0]
        /\ e.completed \in BOOLEAN /\ e.home \in Int /\ e.away \in Int
    BY SportsCycleAssumption
  <1>3. PICK n : n = [e EXCEPT !.since = scClock] OBVIOUS
  <1>4. /\ n.completed = e.completed /\ n.home = e.home /\ n.away = e.away
        /\ n.since = scClock /\ [n EXCEPT !.since = 0] = e
    <2>1. n = [status |-> e.status, completed |-> e.completed, home |-> e.home,
               away |-> e.away, since |-> scClock]
      BY <1>2, <1>3
    <2>2. [n EXCEPT !.since = 0] = [status |-> e.status, completed |-> e.completed,
                                    home |-> e.home, away |-> e.away, since |-> 0]
      BY <2>1
    <2> QED BY <1>2, <2>1, <2>2
  <1>5. EndingFits(n, scClock) BY <1>1, <1>2, <1>4 DEF EndingFits, ScoresFit
  <1>6. scWorld = [h \in Games |-> scWorld[h]] BY DEF SportsInv, WorldFits
  <1>7. /\ scWorld' = [h \in Games |-> scWorld'[h]]
        /\ \A h \in Games : scWorld'[h] = IF h = g THEN n ELSE scWorld[h]
    BY <1>1, <1>3, <1>6
  <1>8. WorldFits(scWorld', scClock')
    <2>1. \A h \in Games : EndingFits(scWorld[h], scClock) BY DEF SportsInv, WorldFits
    <2>2. \A h \in Games : EndingFits(scWorld'[h], scClock') BY <1>1, <1>5, <1>7, <2>1
    <2> QED BY <1>7, <2>2 DEF WorldFits
  <1>9. WorldGoesOn(scWorld, scWorld', scClock)
    <2>1. ~IsFinal(NoEnding) BY DEF IsFinal, NoEnding
    <2> QED BY <1>1, <1>4, <1>7, <2>1 DEF WorldGoesOn
  <1> QED BY <1>1, <1>8, <1>9, TimeGoesOn

LEMMA MatchNeedsTeams ==
    ASSUME NEW row \in FixtureRows, NEW g \in Games, MatchScore(row, g) >= MinConfidence
    PROVE  row.home = GameFacts[g].home /\ row.away = GameFacts[g].away
  <1>1. row.event # g BY SportsCycleAssumption
  <1>2. PICK h, a, l, s :
           /\ h = (IF row.home = GameFacts[g].home THEN 35 ELSE 0)
           /\ a = (IF row.away = GameFacts[g].away THEN 35 ELSE 0)
           /\ l = (IF row.league = GameFacts[g].league THEN 15 ELSE 0)
           /\ s = (IF row.start \in (GameFacts[g].start - 1)..(GameFacts[g].start + 1) THEN 15 ELSE 0)
    OBVIOUS
  <1>3. MatchScore(row, g) = h + a + l + s BY <1>1, <1>2 DEF MatchScore
  <1>4. h + a + l + s >= 85 BY <1>3 DEF MinConfidence
  <1>5. h \in {0, 35} /\ a \in {0, 35} /\ l \in {0, 15} /\ s \in {0, 15} BY <1>2
  <1>6. h = 35 /\ a = 35 BY <1>4, <1>5
  <1> QED BY <1>2, <1>6

LEMMA MatchIs ==
    ASSUME NEW row \in FixtureRows, NEW games, NEW n \in Nat, games \in [1..n -> Games]
    PROVE  \/ match_odds_to_schedule(row, games) = <<>>
           \/ \E g \in Games : /\ match_odds_to_schedule(row, games) = <<g>>
                               /\ MatchScore(row, g) >= MinConfidence
  <1>1. PICK best : best = {i \in DOMAIN games :
                    /\ MatchScore(row, games[i]) > 0
                    /\ \A j \in DOMAIN games :
                          LET s == MatchScore(row, games[i])
                              t == MatchScore(row, games[j])
                          IN  t < s \/ (t = s /\ i <= j)} OBVIOUS
  <1>2. match_odds_to_schedule(row, games) =
           IF \E i \in best : MatchScore(row, games[i]) >= MinConfidence
           THEN <<games[Min(best)]>> ELSE <<>>
    BY Zenon, <1>1 DEF match_odds_to_schedule
  <1>3. CASE \E i \in best : MatchScore(row, games[i]) >= MinConfidence
    <2>1. PICK i \in best : MatchScore(row, games[i]) >= MinConfidence BY <1>3
    <2>2. i \in 1..n /\ games[i] \in Games BY <1>1, <2>1
    <2>3. \A g \in Games : MatchScore(row, g) \in Int BY DEF MatchScore
    <2>4. ASSUME NEW j \in best PROVE j = i
      <3>1. j \in 1..n /\ games[j] \in Games BY <1>1, <2>4
      <3>2. PICK s, t : s = MatchScore(row, games[i]) /\ t = MatchScore(row, games[j]) OBVIOUS
      <3>3. (t < s \/ (t = s /\ i <= j)) /\ (s < t \/ (s = t /\ j <= i)) BY <1>1, <2>1, <2>2, <2>4, <3>1, <3>2
      <3>4. s \in Int /\ t \in Int BY <2>2, <2>3, <3>1, <3>2
      <3> QED BY <2>2, <3>1, <3>3, <3>4
    <2>5. best = {i} BY <2>1, <2>4
    <2>6. Min(best) = i BY <2>2, <2>5 DEF Min
    <2> QED BY <1>2, <1>3, <2>1, <2>2, <2>6
  <1> QED BY <1>2, <1>3

LEMMA MatchFixtureKeeps ==
    ASSUME SportsInv, NEW row \in FixtureRows, MatchFixture(row)
    PROVE  SportsInv'
  <1>1. PICK games \in SetToSeqs(Games) :
           /\ scMatch' = <<row, match_odds_to_schedule(row, games)>>
           /\ UNCHANGED <<scClock, scWorld, scRows, scRejected, scBatches, scCycle, scRun, scReport>>
    BY Zenon DEF MatchFixture
  <1>2. games \in [1..Cardinality(Games) -> Games] BY DEF SetToSeqs
  <1>3. Cardinality(Games) \in Nat BY SportsCycleAssumption, FS_CardinalityType
  <1>4. PICK match : match = match_odds_to_schedule(row, games) OBVIOUS
  <1>5. match = <<>> \/ \E g \in Games : match = <<g>> /\ MatchScore(row, g) >= MinConfidence
    BY <1>2, <1>3, <1>4, MatchIs
  <1>6. FixturesKeepTheirTeams'
    <2>1. scMatch'[1] = row /\ scMatch'[2] = match BY <1>1, <1>4
    <2>2. ASSUME NEW i \in DOMAIN match
          PROVE  row.home = GameFacts[match[i]].home /\ row.away = GameFacts[match[i]].away
      <3>1. PICK g \in Games : match = <<g>> /\ MatchScore(row, g) >= MinConfidence BY <1>5, <2>2
      <3>2. match[i] = g BY <2>2, <3>1
      <3> QED BY <3>1, <3>2, MatchNeedsTeams
    <2> QED BY <2>1, <2>2 DEF FixturesKeepTheirTeams
  <1> QED BY <1>1, <1>6 DEF SportsInv

-----------------------------------------------------------------------------
\* Collecting: only the cycle in progress goes on.

LEMMA CycleContinues ==
    ASSUME SportsInv, UNCHANGED <<scClock, scWorld, scRows, scRejected, scBatches, scReport, scMatch>>,
           \/ scRun' = NoSportsCycle
           \/ /\ RunFits(scRun', scClock, scWorld, scRows, Len(scBatches))
              /\ scRun'.pc # "finishing"
    PROVE  SportsInv'
  <1>1. Len(scRows) \in Nat BY DEF SportsInv, SportsRowsFit, IsList
  <1>2. scRun'.pc # "finishing" BY DEF NoSportsCycle
  <1>3. Claimable(scRun', scRows) = Len(scRows) BY <1>1, <1>2 DEF Claimable
  <1>4. Claimable(scRun, scRows) \in Int /\ Claimable(scRun, scRows) <= Len(scRows)
    <2>1. CASE scRun.pc = "finishing"
      <3>1. RunTyped(scRun, scClock, scWorld, Len(scBatches))
        BY <2>1 DEF SportsInv, NoSportsCycle, RunFits
      <3>2. scRun.logged \in Nat BY <3>1 DEF RunTyped
      <3> QED BY <1>1, <2>1, <3>2 DEF Claimable
    <2>2. CASE scRun.pc # "finishing" BY <1>1, <2>2 DEF Claimable
    <2> QED BY <2>1, <2>2
  <1>5. RowsClaimed(scBatches, Claimable(scRun', scRows))
    BY <1>1, <1>3, <1>4, ClaimsSpread DEF SportsInv
  <1>6. FixturesKeepTheirTeams' BY DEF SportsInv, FixturesKeepTheirTeams
  <1>7. /\ scRows' = scRows /\ scRejected' = scRejected /\ scBatches' = scBatches
        /\ scReport' = scReport /\ scClock' = scClock /\ scWorld' = scWorld
    OBVIOUS
  <1>8. scRun' = NoSportsCycle \/ RunFits(scRun', scClock', scWorld', scRows', Len(scBatches'))
    BY <1>7
  <1>9. RowsClaimed(scBatches', Claimable(scRun', scRows')) BY <1>5, <1>7
  <1>10. /\ scClock' \in Nat /\ scClock' <= MaxScClock /\ WorldFits(scWorld', scClock')
         /\ SportsRowsFit(scRows', scWorld') /\ scRejected' \in Nat /\ BatchesFit(scBatches')
         /\ ClosesFit(scRows', scClock') /\ TotalsFit(scReport', scRows', scRejected')
    BY <1>7 DEF SportsInv
  <1> QED BY <1>6, <1>8, <1>9, <1>10 DEF SportsInv

LEMMA FinalsAreFinal ==
    ASSUME NEW games, games \subseteq Games
    PROVE  /\ FinalsFit(Finals(games), scWorld)
           /\ DOMAIN Finals(games) = {g \in games : IsFinal(scWorld[g])}
  <1>1. PICK finals : finals = Finals(games) OBVIOUS
  <1>2. DOMAIN finals = {g \in games : IsFinal(scWorld[g])} BY <1>1 DEF Finals
  <1>3. \A g \in DOMAIN finals : finals[g] = FinalOf(scWorld[g]) BY <1>1, <1>2 DEF Finals, FinalOf
  <1> QED BY <1>1, <1>2, <1>3 DEF FinalsFit

\* A cycle that stops collecting with nothing
LEMMA BlockedFits ==
    ASSUME scClock \in Nat, NEW rows, NEW batches, NEW run,
           RunTyped(run, scClock, scWorld, batches), NEW blocker
    PROVE  /\ RunFits(Blocked(run, blocker), scClock, scWorld, rows, batches)
           /\ Blocked(run, blocker).pc = "collected"
  <1>1. PICK p : p = [Payload EXCEPT !.mode = "blocked", !.rejects = run.rejects,
                                     !.blocker = blocker, !.at = scClock] OBVIOUS
  <1>2. /\ p.mode = "blocked" /\ p.rejects = run.rejects /\ p.at = scClock
        /\ p.records = <<>> /\ p.finals = <<>>
    BY <1>1 DEF Payload
  <1>3. PICK next : next = Blocked(run, blocker) OBVIOUS
  <1>4. next = [run EXCEPT !.pc = "collected", !.payload = p] BY <1>1, <1>3 DEF Blocked
  <1>5. run = [f \in CycleFields |-> run[f]] BY DEF RunTyped
  <1>6. /\ next = [f \in CycleFields |-> next[f]]
        /\ next.pc = "collected" /\ next.payload = p /\ next.settings = run.settings
        /\ next.caught = run.caught /\ next.began = run.began /\ next.rejects = run.rejects
        /\ next.asked = run.asked /\ next.logged = run.logged /\ next.refused = run.refused
        /\ next.records = run.records /\ next.finals = run.finals
        /\ next.schedule = run.schedule /\ next.batch = run.batch
    BY <1>4, <1>5 DEF CycleFields
  <1>7. RecordsFit(<<>>) /\ FinalsFit(<<>>, scWorld) BY DEF RecordsFit, FinalsFit, IsList
  <1>8. PayloadFits(p, scClock, scWorld) BY <1>2, <1>7 DEF PayloadFits, RunTyped
  <1>9. RunTyped(next, scClock, scWorld, batches) BY <1>6, <1>8 DEF RunTyped, Stages
  <1>10. RunCovers(next, scClock, scWorld) BY <1>2, <1>6 DEF RunCovers
  <1>11. RunCounts(next, rows) /\ RunSettles(next, rows, scWorld)
    BY <1>6 DEF RunCounts, RunSettles
  <1> QED BY <1>3, <1>6, <1>9, <1>10, <1>11 DEF RunFits

\* Everything of the days looked back to is known, unless a page was missed.
LookedBack(run) ==
    run.caught => Covered(run.finals, scWorld, DayOf(scClock) - run.settings.lookback,
                          DayOf(run.began), run.began)

LEMMA AssembledFits ==
    ASSUME scClock \in Nat, NEW rows, NEW batches, NEW run,
           RunTyped(run, scClock, scWorld, batches), LookedBack(run)
    PROVE  /\ RunFits(Assembled(run), scClock, scWorld, rows, batches)
           /\ Assembled(run).pc = "collected"
  <1>1. PICK blocker, rejects :
           /\ blocker = IF run.schedule = <<>> THEN "blocked_no_scheduled_events"
                        ELSE IF run.records = <<>> THEN "blocked_no_usable_odds" ELSE ""
           /\ rejects = IF run.schedule = <<>> THEN run.rejects + 1
                        ELSE IF run.records = <<>> /\ run.rejects = 0 THEN 1 ELSE run.rejects
    OBVIOUS
  <1>2. PICK p : p = [mode |-> "public", records |-> run.records, finals |-> run.finals,
                      rejects |-> rejects, blocker |-> blocker, at |-> scClock] OBVIOUS
  <1>3. PICK next : next = Assembled(run) OBVIOUS
  <1>4. next = [run EXCEPT !.pc = "collected", !.payload = p] BY <1>1, <1>2, <1>3 DEF Assembled
  <1>5. run = [f \in CycleFields |-> run[f]] /\ run.rejects \in Nat BY DEF RunTyped
  <1>6. /\ next = [f \in CycleFields |-> next[f]]
        /\ next.pc = "collected" /\ next.payload = p /\ next.settings = run.settings
        /\ next.caught = run.caught /\ next.began = run.began /\ next.rejects = run.rejects
        /\ next.asked = run.asked /\ next.logged = run.logged /\ next.refused = run.refused
        /\ next.records = run.records /\ next.finals = run.finals
        /\ next.schedule = run.schedule /\ next.batch = run.batch
    BY <1>4, <1>5 DEF CycleFields
  <1>7. rejects \in Nat
    <2>1. rejects \in {run.rejects, run.rejects + 1, 1} BY <1>1
    <2>2. \A n \in Nat : n + 1 \in Nat OBVIOUS
    <2> QED BY <1>5, <2>1, <2>2
  <1>8. /\ p.records = run.records /\ p.finals = run.finals /\ p.at = scClock
        /\ p.rejects = rejects
    BY <1>2
  <1>9. PayloadFits(p, scClock, scWorld) BY <1>7, <1>8 DEF PayloadFits, RunTyped
  <1>10. RunTyped(next, scClock, scWorld, batches) BY <1>6, <1>9 DEF RunTyped, Stages
  <1>11. RunCovers(next, scClock, scWorld) BY <1>6, <1>8 DEF RunCovers, LookedBack
  <1>12. RunCounts(next, rows) /\ RunSettles(next, rows, scWorld)
    BY <1>6 DEF RunCounts, RunSettles
  <1> QED BY <1>3, <1>6, <1>10, <1>11, <1>12 DEF RunFits

LEMMA AfterPriorFits ==
    ASSUME scClock \in Nat, NEW rows, NEW batches, NEW run,
           RunTyped(run, scClock, scWorld, batches), LookedBack(run)
    PROVE  /\ RunFits(AfterPrior(run), scClock, scWorld, rows, batches)
           /\ AfterPrior(run).pc # "finishing"
  <1>1. CASE run.records = <<>> /\ run.schedule # <<>> /\ run.settings.summaries > 0
    <2>1. PICK next : next = AfterPrior(run) OBVIOUS
    <2>2. next = [run EXCEPT !.pc = "summary", !.asked = 0] BY <1>1, <2>1 DEF AfterPrior
    <2>3. run = [f \in CycleFields |-> run[f]] BY DEF RunTyped
    <2>4. /\ next = [f \in CycleFields |-> next[f]]
          /\ next.pc = "summary" /\ next.payload = run.payload /\ next.settings = run.settings
          /\ next.caught = run.caught /\ next.began = run.began /\ next.rejects = run.rejects
          /\ next.asked = 0 /\ next.logged = run.logged /\ next.refused = run.refused
          /\ next.records = run.records /\ next.finals = run.finals
          /\ next.schedule = run.schedule /\ next.batch = run.batch
      BY <2>2, <2>3 DEF CycleFields
    <2>5. RunTyped(next, scClock, scWorld, batches)
      <3>1. next.asked \in Nat /\ next.pc \in Stages BY <2>4 DEF Stages
      <3>2. next.pc \notin {"logging", "finishing", "settling", "closing", "reporting"} BY <2>4
      <3>3. IsList(next.schedule) /\ \A i \in 1..Len(next.schedule) : next.schedule[i] \in Games
        BY Zenon, <2>4 DEF RunTyped
      <3>4. RecordsFit(next.records) /\ FinalsFit(next.finals, scWorld) /\ PayloadFits(next.payload, scClock, scWorld)
        BY Zenon, <2>4 DEF RunTyped
      <3>5. /\ next.settings \in CycleSettings /\ next.caught \in BOOLEAN
            /\ next.began \in Nat /\ next.began <= scClock /\ next.rejects \in Nat
            /\ next.logged \in Nat /\ next.refused \in Nat /\ next.batch \in 0..batches
        BY Zenon, <2>4 DEF RunTyped
      <3> QED BY Zenon, <2>4, <3>1, <3>2, <3>3, <3>4, <3>5 DEF RunTyped
    <2>6. Len(run.schedule) > 0
      <3>1. IsList(run.schedule) BY DEF RunTyped
      <3>2. Len(run.schedule) # 0 BY <1>1, <3>1 DEF IsList
      <3> QED BY <3>1, <3>2 DEF IsList
    <2>7. RunCovers(next, scClock, scWorld) BY <1>1, <2>4, <2>6 DEF RunCovers, LookedBack
    <2>8. RunCounts(next, rows) /\ RunSettles(next, rows, scWorld)
      BY <2>4 DEF RunCounts, RunSettles
    <2> QED BY <2>1, <2>4, <2>5, <2>7, <2>8 DEF RunFits
  <1>2. CASE ~(run.records = <<>> /\ run.schedule # <<>> /\ run.settings.summaries > 0)
    <2>1. AfterPrior(run) = Assembled(run) BY <1>2 DEF AfterPrior
    <2> QED BY <2>1, AssembledFits
  <1> QED BY <1>1, <1>2

LEMMA AfterOfficialFits ==
    ASSUME scClock \in Nat, NEW rows, NEW batches, NEW run,
           RunTyped(run, scClock, scWorld, batches)
    PROVE  /\ RunFits(AfterOfficial(run), scClock, scWorld, rows, batches)
           /\ AfterOfficial(run).pc # "finishing"
  <1>1. CASE run.settings.scraper
    <2>1. PICK next : next = AfterOfficial(run) OBVIOUS
    <2>2. next = [run EXCEPT !.pc = "scoreboard"] BY <1>1, <2>1 DEF AfterOfficial
    <2>3. run = [f \in CycleFields |-> run[f]] BY DEF RunTyped
    <2>4. /\ next = [f \in CycleFields |-> next[f]]
          /\ next.pc = "scoreboard" /\ next.payload = run.payload /\ next.settings = run.settings
          /\ next.caught = run.caught /\ next.began = run.began /\ next.rejects = run.rejects
          /\ next.asked = run.asked /\ next.logged = run.logged /\ next.refused = run.refused
          /\ next.records = run.records /\ next.finals = run.finals
          /\ next.schedule = run.schedule /\ next.batch = run.batch
      BY <2>2, <2>3 DEF CycleFields
    <2>5. RunTyped(next, scClock, scWorld, batches) BY <2>4 DEF RunTyped, Stages
    <2>6. RunCovers(next, scClock, scWorld) BY <2>4 DEF RunCovers
    <2>7. RunCounts(next, rows) /\ RunSettles(next, rows, scWorld)
      BY <2>4 DEF RunCounts, RunSettles
    <2> QED BY <2>1, <2>4, <2>5, <2>6, <2>7 DEF RunFits
  <1>2. CASE ~run.settings.scraper
    <2>1. AfterOfficial(run) = Blocked(run, "blocked_missing_sports_source") BY <1>2 DEF AfterOfficial
    <2>2. Blocked(run, "blocked_missing_sports_source").pc # "finishing" BY BlockedFits
    <2> QED BY <2>1, <2>2, BlockedFits
  <1> QED BY <1>1, <1>2

LEMMA InProgress ==
    ASSUME SportsInv, NEW pc, Collecting(pc), pc # "idle"
    PROVE  /\ RunFits(scRun, scClock, scWorld, scRows, Len(scBatches))
           /\ RunTyped(scRun, scClock, scWorld, Len(scBatches))
           /\ scClock \in Nat /\ scRun.pc = pc
  <1>1. scRun.pc = pc BY DEF Collecting
  <1>2. scRun # NoSportsCycle BY <1>1 DEF NoSportsCycle
  <1> QED BY <1>1, <1>2 DEF SportsInv, RunFits

\* What a page adds to a cycle that still collects
Collects(pc) == pc \in {"official", "scoreboard", "blocked", "prior", "summary"}
SameCycle(next, run) ==
    /\ next = [f \in CycleFields |-> next[f]] /\ next.settings = run.settings
    /\ next.began = run.began /\ next.payload = run.payload /\ next.logged = run.logged
    /\ next.refused = run.refused /\ next.batch = run.batch
PagesFitRun(run, world) ==
    /\ run.caught \in BOOLEAN /\ run.rejects \in Nat /\ run.asked \in Nat
    /\ RecordsFit(run.records) /\ FinalsFit(run.finals, world)
    /\ IsList(run.schedule) /\ \A i \in 1..Len(run.schedule) : run.schedule[i] \in Games
\* It is noted as evidence, and may count as a reject.
Noted(next, run, rejects) ==
    /\ SameCycle(next, run) /\ next.pc = run.pc /\ next.rejects = rejects
    /\ next.caught = run.caught /\ next.asked = run.asked /\ next.records = run.records
    /\ next.finals = run.finals /\ next.schedule = run.schedule

LEMMA TypedAnew ==
    ASSUME NEW clock, NEW world, NEW batches, NEW run, RunTyped(run, clock, world, batches),
           NEW next, SameCycle(next, run), Collects(next.pc), PagesFitRun(next, world)
    PROVE  RunTyped(next, clock, world, batches)
  <1>1. next.pc \in Stages BY DEF Stages, Collects
  <1>2. next.pc \notin {"logging", "finishing", "settling", "closing", "reporting"} BY DEF Collects
  <1>3. /\ PayloadFits(next.payload, clock, world) /\ next.settings \in CycleSettings
        /\ next.began \in Nat /\ next.began <= clock
        /\ next.logged \in Nat /\ next.refused \in Nat /\ next.batch \in 0..batches
    BY Zenon DEF RunTyped, SameCycle
  <1> QED BY Zenon, <1>1, <1>2, <1>3 DEF RunTyped, SameCycle, PagesFitRun

LEMMA EvidenceAdded ==
    ASSUME NEW clock, NEW world, NEW batches, NEW run, RunTyped(run, clock, world, batches),
           Collects(run.pc), NEW rejects \in Nat, NEW next, Noted(next, run, rejects)
    PROVE  RunTyped(next, clock, world, batches)
  <1>1. PagesFitRun(next, world)
    <2>1. next.rejects \in Nat BY DEF Noted
    <2> QED BY Zenon, <2>1 DEF RunTyped, Noted, PagesFitRun
  <1>2. Collects(next.pc) /\ SameCycle(next, run) BY DEF Noted
  <1> QED BY <1>1, <1>2, TypedAnew

LEMMA CycleStops ==
    ASSUME SportsInv, UNCHANGED <<scClock, scWorld, scRows, scRejected, scBatches, scReport, scMatch>>,
           scRun' = NoSportsCycle
    PROVE  SportsInv'
  BY CycleContinues

LEMMA FetchOfficialOddsKeeps ==
    ASSUME SportsInv, NEW page \in OfficialPages, NEW failures \in 0..1, NEW shape \in Shapes,
           FetchOfficialOdds(page, failures, shape)
    PROVE  SportsInv'
  <1>1. PICK records, evidence :
           /\ records = normalize_the_odds_api_payload(page, scClock)
           /\ evidence = scRun.evidence \cup
                  Fetched(<<"official", 0>>, failures, <<"official_api">>, page)
    OBVIOUS
  <1>2. PICK run : run = [scRun EXCEPT !.evidence = evidence] OBVIOUS
  <1>3. PICK payload : payload = [Payload EXCEPT !.mode = "api", !.records = records,
                                      !.rejects = run.rejects, !.at = scClock] OBVIOUS
  <1>4. PICK read : read = [run EXCEPT !.pc = "collected", !.payload = payload] OBVIOUS
  <1>5. PICK next : next =
           IF failures = 1 THEN AfterOfficial(run)
           ELSE IF shape = "uncaught" THEN NoSportsCycle
           ELSE IF shape = "caught" THEN AfterOfficial([run EXCEPT !.rejects = @ + 1])
           ELSE IF records = <<>> THEN AfterOfficial(run) ELSE read
    OBVIOUS
  <1>6. Collecting("official") /\ Continue(next)
    BY Zenon, <1>1, <1>2, <1>3, <1>4, <1>5 DEF FetchOfficialOdds
  <1>7. /\ RunTyped(scRun, scClock, scWorld, Len(scBatches)) /\ scRun.pc = "official"
        /\ scClock \in Nat
    BY <1>6, InProgress
  <1>8. scRun.rejects \in Nat /\ scRun = [f \in CycleFields |-> scRun[f]] BY <1>7 DEF RunTyped
  <1>9. RunTyped(run, scClock, scWorld, Len(scBatches)) /\ run = [f \in CycleFields |-> run[f]]
        /\ run.pc = "official" /\ run.rejects = scRun.rejects
    <2>1. Noted(run, scRun, scRun.rejects) BY <1>2, <1>8 DEF CycleFields, Noted, SameCycle
    <2>2. Collects(scRun.pc) BY <1>7 DEF Collects
    <2>3. RunTyped(run, scClock, scWorld, Len(scBatches)) BY <1>7, <1>8, <2>1, <2>2, EvidenceAdded
    <2> QED BY <1>7, <2>1, <2>3 DEF Noted, SameCycle
  <1>10. RunTyped([run EXCEPT !.rejects = @ + 1], scClock, scWorld, Len(scBatches))
    <2>1. PICK more : more = [run EXCEPT !.rejects = @ + 1] OBVIOUS
    <2>2. Noted(more, run, run.rejects + 1) BY <1>9, <2>1 DEF CycleFields, Noted, SameCycle
    <2>3. run.rejects + 1 \in Nat /\ Collects(run.pc) BY <1>8, <1>9 DEF Collects
    <2>4. RunTyped(more, scClock, scWorld, Len(scBatches)) BY <1>9, <2>2, <2>3, EvidenceAdded
    <2> QED BY <2>1, <2>4
  <1>11. RunFits(read, scClock, scWorld, scRows, Len(scBatches)) /\ read.pc = "collected"
    <2>1. /\ payload.mode = "api" /\ payload.records = records /\ payload.rejects = run.rejects
          /\ payload.at = scClock /\ payload.finals = <<>>
      BY <1>3 DEF Payload
    <2>2. RecordsFit(records)
      <3>1. scClock \in Int BY <1>7
      <3> QED BY <1>1, <3>1, OfficialOddsFit
    <2>3. FinalsFit(<<>>, scWorld) BY DEF FinalsFit
    <2>4. PayloadFits(payload, scClock, scWorld) BY <1>7, <1>8, <1>9, <2>1, <2>2, <2>3 DEF PayloadFits
    <2>5. /\ read = [f \in CycleFields |-> read[f]]
          /\ read.pc = "collected" /\ read.payload = payload /\ read.settings = run.settings
          /\ read.caught = run.caught /\ read.began = run.began /\ read.rejects = run.rejects
          /\ read.asked = run.asked /\ read.logged = run.logged /\ read.refused = run.refused
          /\ read.records = run.records /\ read.finals = run.finals
          /\ read.schedule = run.schedule /\ read.batch = run.batch
      BY <1>4, <1>9 DEF CycleFields
    <2>6. RunTyped(read, scClock, scWorld, Len(scBatches)) BY <1>9, <2>4, <2>5 DEF RunTyped, Stages
    <2>7. RunCovers(read, scClock, scWorld) BY <2>1, <2>5 DEF RunCovers
    <2>8. RunCounts(read, scRows) /\ RunSettles(read, scRows, scWorld)
      BY <2>5 DEF RunCounts, RunSettles
    <2> QED BY <2>5, <2>6, <2>7, <2>8 DEF RunFits
  <1>12. \/ next = NoSportsCycle
         \/ RunFits(next, scClock, scWorld, scRows, Len(scBatches)) /\ next.pc # "finishing"
    <2>1. \/ next = NoSportsCycle \/ next = AfterOfficial(run)
          \/ next = AfterOfficial([run EXCEPT !.rejects = @ + 1]) \/ next = read
      BY <1>5
    <2>2. CASE next = AfterOfficial(run) BY <1>7, <1>9, <2>2, AfterOfficialFits
    <2>3. CASE next = AfterOfficial([run EXCEPT !.rejects = @ + 1])
      BY <1>7, <1>10, <2>3, AfterOfficialFits
    <2>4. CASE next = read BY <1>11, <2>4
    <2> QED BY <2>1, <2>2, <2>3, <2>4
  <1> QED BY <1>6, <1>12, CycleContinues DEF Continue

LEMMA NoSourceKeeps == SportsInv /\ NoSource => SportsInv'
  <1> SUFFICES ASSUME SportsInv, NoSource PROVE SportsInv'
    OBVIOUS
  <1>1. Collecting("blocked") /\ Continue(Blocked(scRun, "blocked_missing_sports_source"))
    BY DEF NoSource
  <1>2. RunTyped(scRun, scClock, scWorld, Len(scBatches)) /\ scClock \in Nat BY <1>1, InProgress
  <1>3. PICK next : next = Blocked(scRun, "blocked_missing_sports_source") OBVIOUS
  <1>4. RunFits(next, scClock, scWorld, scRows, Len(scBatches)) /\ next.pc = "collected"
    BY <1>2, <1>3, BlockedFits
  <1> QED BY <1>1, <1>3, <1>4, CycleContinues DEF Continue

LEMMA ScheduleIs ==
    ASSUME NEW games, games \subseteq Games
    PROVE  /\ IsList(SetToSeq(games))
           /\ \A i \in 1..Len(SetToSeq(games)) : SetToSeq(games)[i] \in Games
  <1>1. IsFiniteSet(games) BY SportsCycleAssumption, FS_Subset
  <1>2. PICK s : s = SetToSeq(games) OBVIOUS
  <1>3. s \in Seq(games) BY <1>1, <1>2, SetIsListed
  <1> QED BY <1>2, <1>3 DEF IsList

\* The finals of a day, and of one day more
LEMMA DayCovered ==
    ASSUME NEW day \in Nat, NEW before
    PROVE  Covered(Finals(GamesOn(day)), scWorld, day, day, before)
  <1> SUFFICES ASSUME NEW g \in Games, day <= DayOf(GameFacts[g].start),
                      DayOf(GameFacts[g].start) <= day, IsFinal(scWorld[g])
               PROVE  g \in DOMAIN Finals(GamesOn(day))
    BY DEF Covered
  <1>1. GameFacts[g].start \in Nat BY SportsCycleAssumption
  <1>2. DayOf(GameFacts[g].start) \in Nat BY <1>1, DaysFollow
  <1>3. DayOf(GameFacts[g].start) = day BY <1>2
  <1>4. g \in GamesOn(day) /\ GamesOn(day) \subseteq Games BY <1>3 DEF GamesOn
  <1> QED BY <1>4, FinalsAreFinal

LEMMA OneDayMore ==
    ASSUME NEW day \in Int, NEW to \in Int, NEW before, NEW finals, FinalsFit(finals, scWorld),
           NEW next, next = Over(Finals(GamesOn(day)), finals)
    PROVE  /\ FinalsFit(next, scWorld)
           /\ Covered(finals, scWorld, day + 1, to, before) => Covered(next, scWorld, day, to, before)
  <1>1. PICK here : here = Finals(GamesOn(day)) OBVIOUS
  <1>2. GamesOn(day) \subseteq Games BY DEF GamesOn
  <1>3. FinalsFit(here, scWorld) /\ DOMAIN here = {g \in GamesOn(day) : IsFinal(scWorld[g])}
    BY <1>1, <1>2, FinalsAreFinal
  <1>4. DOMAIN next = DOMAIN here \cup DOMAIN finals BY <1>1 DEF Over
  <1>5. \A g \in DOMAIN next : next[g] = IF g \in DOMAIN here THEN here[g] ELSE finals[g]
    BY <1>1, <1>4 DEF Over
  <1>6. FinalsFit(next, scWorld) BY <1>3, <1>4, <1>5 DEF FinalsFit
  <1>7. ASSUME Covered(finals, scWorld, day + 1, to, before), NEW g \in Games,
               day <= DayOf(GameFacts[g].start), DayOf(GameFacts[g].start) <= to,
               IsFinal(scWorld[g]), scWorld[g].since < before
        PROVE  g \in DOMAIN next
    <2>1. GameFacts[g].start \in Nat BY SportsCycleAssumption
    <2>2. DayOf(GameFacts[g].start) \in Nat BY <2>1, DaysFollow
    <2>3. CASE DayOf(GameFacts[g].start) = day
      <3>1. g \in GamesOn(day) BY <2>3 DEF GamesOn
      <3> QED BY <1>3, <1>4, <1>7, <3>1
    <2>4. CASE DayOf(GameFacts[g].start) # day
      <3>1. day + 1 <= DayOf(GameFacts[g].start) BY <1>7, <2>2, <2>4
      <3> QED BY <1>4, <1>7, <3>1 DEF Covered
    <2> QED BY <2>3, <2>4
  <1> QED BY <1>6, <1>7 DEF Covered

LEMMA ScoreboardOddsFit ==
    ASSUME scClock \in Nat, NEW p \in Postings, NEW schedule, IsList(schedule),
           \A i \in 1..Len(schedule) : schedule[i] \in Games,
           NEW records, records = FlattenSeq([i \in DOMAIN schedule |->
                            normalize_espn_odds_from_event(p, schedule[i], scClock)])
    PROVE  RecordsFit(records)
  <1>1. scClock \in Int /\ Len(schedule) \in Nat /\ DOMAIN schedule = 1..Len(schedule) BY DEF IsList
  <1>2. PICK s : s = [i \in DOMAIN schedule |->
                         normalize_espn_odds_from_event(p, schedule[i], scClock)] OBVIOUS
  <1>3. IsList(s) /\ Len(s) = Len(schedule) BY <1>1, <1>2 DEF IsList
  <1>4. ASSUME NEW i \in 1..Len(s) PROVE RecordsFit(s[i])
    <2>1. s[i] = normalize_espn_odds_from_event(p, schedule[i], scClock) /\ schedule[i] \in Games
      BY <1>1, <1>2, <1>3
    <2> QED BY <1>1, <2>1, EventOddsFit
  <1> QED BY <1>2, <1>3, <1>4, FlattenedFit

LEMMA SettingsFit ==
    \A s \in CycleSettings : s.lookback \in Nat /\ s.summaries \in Nat
  <1>1. \A s \in CycleSettings : s.lookback \in 0..7 /\ s.summaries \in 0..50
    BY Zenon, SportsCycleAssumption
  <1> QED BY <1>1

\* What the scoreboard of today makes of a cycle
ReadFrom(read, run, p) ==
    LET schedule == SetToSeq(GamesOn(DayOf(scClock)))
        records == FlattenSeq([i \in DOMAIN schedule |->
                       normalize_espn_odds_from_event(p, schedule[i], scClock)])
    IN  read = [run EXCEPT !.pc = "prior", !.asked = 0, !.schedule = schedule,
                           !.finals = Finals(GamesOn(DayOf(scClock))),
                           !.records = At(records, {i \in DOMAIN records :
                                           match_odds_to_schedule(records[i], schedule) # <<>>})]

LEMMA ReadFits ==
    ASSUME scClock \in Nat, NEW rows, NEW batches, NEW run,
           RunTyped(run, scClock, scWorld, batches), Collects(run.pc),
           NEW p \in Postings, NEW read, ReadFrom(read, run, p)
    PROVE  /\ run.settings.lookback = 0 =>
                 /\ RunFits(AfterPrior(read), scClock, scWorld, rows, batches)
                 /\ AfterPrior(read).pc # "finishing"
           /\ run.settings.lookback # 0 =>
                 RunFits(read, scClock, scWorld, rows, batches) /\ read.pc # "finishing"
  <1>1. PICK schedule : schedule = SetToSeq(GamesOn(DayOf(scClock))) OBVIOUS
  <1>2. PICK records : records = FlattenSeq([i \in DOMAIN schedule |->
                           normalize_espn_odds_from_event(p, schedule[i], scClock)]) OBVIOUS
  <1>3. PICK kept : kept = At(records, {i \in DOMAIN records :
                               match_odds_to_schedule(records[i], schedule) # <<>>}) OBVIOUS
  <1>4. PICK today, finals : today = GamesOn(DayOf(scClock)) /\ finals = Finals(today) OBVIOUS
  <1>5. today \subseteq Games BY <1>4 DEF GamesOn
  <1>6. IsList(schedule) /\ \A i \in 1..Len(schedule) : schedule[i] \in Games
    BY <1>1, <1>4, <1>5, ScheduleIs
  <1>7. RecordsFit(records) BY <1>2, <1>6, ScoreboardOddsFit
  <1>8. RecordsFit(kept)
    <2>1. DOMAIN records = 1..Len(records) BY <1>7 DEF RecordsFit, IsList
    <2>2. PICK P : P = {i \in DOMAIN records : match_odds_to_schedule(records[i], schedule) # <<>>}
      OBVIOUS
    <2>3. P \in SUBSET (1..Len(records)) BY <2>1, <2>2
    <2> QED BY <1>3, <1>7, <2>2, <2>3, RecordsTaken
  <1>9. FinalsFit(finals, scWorld) BY <1>4, <1>5, FinalsAreFinal
  <1>10. run = [f \in CycleFields |-> run[f]] BY DEF RunTyped
  <1>11. read = [run EXCEPT !.pc = "prior", !.asked = 0, !.schedule = schedule,
                           !.finals = finals, !.records = kept]
    BY Zenon, <1>1, <1>2, <1>3, <1>4 DEF ReadFrom
  <1>12. /\ SameCycle(read, run) /\ read.pc = "prior" /\ read.caught = run.caught
        /\ read.rejects = run.rejects /\ read.asked = 0 /\ read.schedule = schedule
        /\ read.finals = finals /\ read.records = kept
    BY <1>10, <1>11 DEF CycleFields, SameCycle
  <1>13. PagesFitRun(read, scWorld)
    <2>1. run.caught \in BOOLEAN /\ run.rejects \in Nat BY DEF RunTyped
    <2>2. read.asked \in Nat BY <1>12
    <2> QED BY Zenon, <1>6, <1>8, <1>9, <1>12, <2>1, <2>2 DEF PagesFitRun
  <1>14. Collects(read.pc) BY <1>12 DEF Collects
  <1>15. RunTyped(read, scClock, scWorld, batches) BY <1>12, <1>13, <1>14, TypedAnew
  <1>16. read.settings = run.settings /\ read.began = run.began BY <1>12 DEF SameCycle
  <1>17. run.settings.lookback \in Nat
    <2>1. run.settings \in CycleSettings BY DEF RunTyped
    <2> QED BY <2>1, SettingsFit
  <1>18. Covered(finals, scWorld, DayOf(scClock) - 0, DayOf(run.began), run.began)
    <2>1. run.began \in Nat /\ run.began <= scClock BY DEF RunTyped
    <2>2. DayOf(scClock) \in Nat /\ DayOf(run.began) \in Nat /\ DayOf(run.began) <= DayOf(scClock)
      BY <2>1, DaysFollow
    <2>3. Covered(finals, scWorld, DayOf(scClock), DayOf(scClock), run.began)
      BY <1>4, <2>2, DayCovered
    <2>4. ASSUME NEW g \in Games, DayOf(GameFacts[g].start) <= DayOf(run.began)
          PROVE  DayOf(GameFacts[g].start) <= DayOf(scClock)
      <3>1. GameFacts[g].start \in Nat BY SportsCycleAssumption
      <3>2. DayOf(GameFacts[g].start) \in Nat BY <3>1, DaysFollow
      <3> QED BY <2>2, <2>4, <3>2
    <2>5. DayOf(scClock) - 0 = DayOf(scClock) BY <2>2
    <2> QED BY <2>3, <2>4, <2>5 DEF Covered
  <1>19. CASE run.settings.lookback = 0
    <2>1. LookedBack(read) BY <1>12, <1>16, <1>18, <1>19 DEF LookedBack
    <2> QED BY <1>15, <1>19, <2>1, AfterPriorFits
  <1>20. CASE run.settings.lookback # 0
    <2>1. read.asked < read.settings.lookback BY <1>12, <1>16, <1>17, <1>20
    <2>2. RunCovers(read, scClock, scWorld) BY <1>12, <1>16, <1>18, <2>1 DEF RunCovers
    <2>3. RunCounts(read, rows) /\ RunSettles(read, rows, scWorld)
      BY <1>12 DEF RunCounts, RunSettles
    <2> QED BY <1>12, <1>15, <1>20, <2>2, <2>3 DEF RunFits
  <1> QED BY <1>19, <1>20

LEMMA FetchScoreboardKeeps ==
    ASSUME SportsInv, NEW p \in Postings, NEW failures \in 0..2, NEW shape \in Shapes,
           FetchScoreboard(p, failures, shape)
    PROVE  SportsInv'
  <1>1. PICK plan, today, schedule :
           /\ plan = scRun.settings.plan /\ today = GamesOn(DayOf(scClock))
           /\ schedule = SetToSeq(today)
    OBVIOUS
  <1>2. PICK records : records = FlattenSeq([i \in DOMAIN schedule |->
                       normalize_espn_odds_from_event(p, schedule[i], scClock)]) OBVIOUS
  <1>3. PICK kept : kept = At(records, {i \in DOMAIN records :
                                match_odds_to_schedule(records[i], schedule) # <<>>}) OBVIOUS
  <1>4. PICK evidence : evidence = scRun.evidence \cup
            Fetched(<<"scoreboard", DayOf(scClock)>>, failures, plan,
                    <<shape, p, [g \in today |-> scWorld[g]]>>) OBVIOUS
  <1>5. PICK run : run = [scRun EXCEPT !.evidence = evidence] OBVIOUS
  <1>6. PICK more : more = [run EXCEPT !.rejects = @ + 1] OBVIOUS
  <1>7. PICK read : read = [run EXCEPT !.pc = "prior", !.asked = 0, !.schedule = schedule,
                                       !.finals = Finals(today), !.records = kept] OBVIOUS
  <1>8. PICK next : next =
           IF failures = Len(plan) THEN Blocked(more, "blocked_public_source_unavailable")
           ELSE IF shape = "uncaught" THEN NoSportsCycle
           ELSE IF shape = "caught" THEN Blocked(more, "blocked_public_source_unavailable")
           ELSE IF scRun.settings.lookback = 0 THEN AfterPrior(read) ELSE read
    OBVIOUS
  <1>9. Collecting("scoreboard") /\ Continue(next)
    BY Zenon, <1>1, <1>2, <1>3, <1>4, <1>5, <1>6, <1>7, <1>8 DEF FetchScoreboard
  <1>10. /\ RunTyped(scRun, scClock, scWorld, Len(scBatches)) /\ scRun.pc = "scoreboard"
         /\ scClock \in Nat
    BY <1>9, InProgress
  <1>11. scRun.rejects \in Nat /\ scRun = [f \in CycleFields |-> scRun[f]] BY <1>10 DEF RunTyped
  <1>12. Noted(run, scRun, scRun.rejects) BY <1>5, <1>11 DEF CycleFields, Noted, SameCycle
  <1>13. RunTyped(run, scClock, scWorld, Len(scBatches)) /\ Collects(run.pc)
    <2>1. Collects(scRun.pc) BY <1>10 DEF Collects
    <2>2. run.pc = scRun.pc BY <1>12 DEF Noted
    <2> QED BY <1>10, <1>11, <1>12, <2>1, <2>2, EvidenceAdded
  <1>14. RunTyped(more, scClock, scWorld, Len(scBatches))
    <2>1. run = [f \in CycleFields |-> run[f]] /\ run.rejects \in Nat BY <1>13 DEF RunTyped
    <2>2. Noted(more, run, run.rejects + 1) BY <1>6, <2>1 DEF CycleFields, Noted, SameCycle
    <2>3. run.rejects + 1 \in Nat BY <2>1
    <2> QED BY <1>13, <2>2, <2>3, EvidenceAdded
  <1>15. run.settings = scRun.settings BY <1>12 DEF Noted, SameCycle
  <1>17. \/ next = NoSportsCycle
         \/ RunFits(next, scClock, scWorld, scRows, Len(scBatches)) /\ next.pc # "finishing"
    <2>1. \/ next = NoSportsCycle \/ next = Blocked(more, "blocked_public_source_unavailable")
          \/ next = AfterPrior(read) /\ run.settings.lookback = 0
          \/ next = read /\ run.settings.lookback # 0
      BY <1>8, <1>15
    <2>2. CASE next = Blocked(more, "blocked_public_source_unavailable")
      <3>1. RunFits(next, scClock, scWorld, scRows, Len(scBatches)) /\ next.pc = "collected"
        BY <1>10, <1>14, <2>2, BlockedFits
      <3> QED BY <3>1
    <2>3. /\ run.settings.lookback = 0 =>
                 /\ RunFits(AfterPrior(read), scClock, scWorld, scRows, Len(scBatches))
                 /\ AfterPrior(read).pc # "finishing"
          /\ run.settings.lookback # 0 =>
                 RunFits(read, scClock, scWorld, scRows, Len(scBatches)) /\ read.pc # "finishing"
      <3>1. ReadFrom(read, run, p) BY Zenon, <1>1, <1>2, <1>3, <1>7 DEF ReadFrom
      <3> QED BY <1>10, <1>13, <3>1, ReadFits
    <2> QED BY Zenon, <2>1, <2>2, <2>3
  <1> QED BY <1>9, <1>17, CycleContinues DEF Continue

LEMMA FetchPriorKeeps ==
    ASSUME SportsInv, NEW failures \in 0..2, NEW shape \in Shapes, FetchPrior(failures, shape)
    PROVE  SportsInv'
  <1>1. PICK plan, back : plan = scRun.settings.plan /\ back = scRun.asked + 1 OBVIOUS
  <1>2. PICK day, games : day = _prior_yyyymmdd(back) /\ games = GamesOn(day) OBVIOUS
  <1>3. PICK good : good = (failures < Len(plan) /\ shape = "good") OBVIOUS
  <1>4. PICK evidence : evidence = scRun.evidence \cup
            Fetched(<<"scoreboard", day>>, failures, plan, <<shape, <<>>, [g \in games |-> scWorld[g]]>>)
    OBVIOUS
  <1>5. PICK finals : finals = IF good THEN Over(Finals(games), scRun.finals) ELSE scRun.finals OBVIOUS
  <1>6. PICK run : run = [scRun EXCEPT !.asked = back, !.caught = @ /\ good, !.evidence = evidence,
                                       !.finals = finals] OBVIOUS
  <1>7. PICK next : next = IF back < scRun.settings.lookback THEN run ELSE AfterPrior(run) OBVIOUS
  <1>8. Collecting("prior") /\ Continue(next)
    <2>1. run = [scRun EXCEPT !.asked = back, !.caught = @ /\ good,
                    !.evidence = @ \cup Fetched(<<"scoreboard", day>>, failures, plan,
                                                <<shape, <<>>, [g \in games |-> scWorld[g]]>>),
                    !.finals = IF good THEN Over(Finals(games), @) ELSE @]
      BY Zenon, <1>4, <1>5, <1>6
    <2> QED BY Zenon, <1>1, <1>2, <1>3, <1>7, <2>1 DEF FetchPrior
  <1>9. /\ RunTyped(scRun, scClock, scWorld, Len(scBatches)) /\ scRun.pc = "prior"
        /\ scClock \in Nat /\ RunCovers(scRun, scClock, scWorld)
    BY <1>8, InProgress DEF RunFits
  <1>10. scRun = [f \in CycleFields |-> scRun[f]] /\ scRun.asked \in Nat
         /\ scRun.began \in Nat /\ scRun.began <= scClock /\ FinalsFit(scRun.finals, scWorld)
         /\ scRun.caught \in BOOLEAN
    BY <1>9 DEF RunTyped
  <1>11. DayOf(scClock) \in Nat /\ DayOf(scRun.began) \in Nat BY <1>9, <1>10, DaysFollow
  <1>12. day = DayOf(scClock) - back /\ day \in Int /\ back \in Nat
         /\ day + 1 = DayOf(scClock) - scRun.asked
    BY <1>1, <1>2, <1>10, <1>11 DEF _prior_yyyymmdd
  <1>13. FinalsFit(finals, scWorld)
         /\ (scRun.caught /\ good => Covered(finals, scWorld, day, DayOf(scRun.began), scRun.began))
    <2>1. CASE good
      <3>1. finals = Over(Finals(GamesOn(day)), scRun.finals) BY <1>2, <1>5, <2>1
      <3>2. scRun.caught => Covered(scRun.finals, scWorld, day + 1, DayOf(scRun.began), scRun.began)
        BY <1>9, <1>12 DEF RunCovers
      <3>3. DayOf(scRun.began) \in Int BY <1>11
      <3> QED BY <1>10, <1>12, <3>1, <3>2, <3>3, OneDayMore
    <2>2. CASE ~good BY <1>5, <1>10, <2>2
    <2> QED BY <2>1, <2>2
  <1>14. /\ SameCycle(run, scRun) /\ run.pc = "prior" /\ run.rejects = scRun.rejects
         /\ run.asked = back /\ run.schedule = scRun.schedule /\ run.finals = finals
         /\ run.records = scRun.records
    BY <1>6, <1>9, <1>10 DEF CycleFields, SameCycle
  <1>15. run.caught = (scRun.caught /\ good) BY <1>6, <1>10 DEF CycleFields
  <1>16. RunTyped(run, scClock, scWorld, Len(scBatches))
    <2>1. run.caught \in BOOLEAN BY <1>15
    <2>2. PagesFitRun(run, scWorld) BY Zenon, <1>9, <1>12, <1>13, <1>14, <2>1 DEF PagesFitRun, RunTyped
    <2>3. Collects(run.pc) BY <1>14 DEF Collects
    <2> QED BY <1>9, <1>14, <2>2, <2>3, TypedAnew
  <1>17. run.settings = scRun.settings /\ run.began = scRun.began BY <1>14 DEF SameCycle
  <1>18. scRun.settings.lookback \in Nat
    <2>1. scRun.settings \in CycleSettings BY <1>9 DEF RunTyped
    <2> QED BY <2>1, SettingsFit
  <1>19. scRun.asked < scRun.settings.lookback BY <1>9 DEF RunCovers
  <1>20. RunFits(next, scClock, scWorld, scRows, Len(scBatches)) /\ next.pc # "finishing"
    <2>1. CASE back < scRun.settings.lookback
      <3>1. next = run BY <1>7, <2>1
      <3>2. RunCovers(run, scClock, scWorld)
        BY <1>12, <1>13, <1>14, <1>15, <1>17, <2>1 DEF RunCovers
      <3>3. RunCounts(run, scRows) /\ RunSettles(run, scRows, scWorld)
        BY <1>14 DEF RunCounts, RunSettles
      <3> QED BY <1>14, <1>16, <3>1, <3>2, <3>3 DEF RunFits
    <2>2. CASE ~(back < scRun.settings.lookback)
      <3>1. back = scRun.settings.lookback BY <1>1, <1>10, <1>18, <1>19, <2>2
      <3>2. LookedBack(run) BY <1>12, <1>13, <1>14, <1>15, <1>17, <3>1 DEF LookedBack
      <3>3. next = AfterPrior(run) BY <1>7, <2>2
      <3> QED BY <1>9, <1>16, <3>2, <3>3, AfterPriorFits
    <2> QED BY <2>1, <2>2
  <1> QED BY <1>8, <1>20, CycleContinues DEF Continue

LEMMA FetchSummaryKeeps ==
    ASSUME SportsInv, NEW p \in Postings, NEW failures \in 0..2, NEW shape \in Shapes,
           FetchSummary(p, failures, shape)
    PROVE  SportsInv'
  <1>1. PICK plan, turn : plan = scRun.settings.plan /\ turn = scRun.asked + 1 OBVIOUS
  <1>2. PICK g, last : /\ g = scRun.schedule[turn]
                       /\ last = (turn = Min({Len(scRun.schedule), scRun.settings.summaries})) OBVIOUS
  <1>3. PICK good : good = (failures < Len(plan) /\ shape = "good") OBVIOUS
  <1>4. PICK evidence : evidence = scRun.evidence \cup
            Fetched(<<"summary", turn>>, failures, plan, <<shape, p>>) OBVIOUS
  <1>5. PICK rejects : rejects = scRun.rejects +
            (IF failures < Len(plan) /\ shape = "caught" THEN 1 ELSE 0) OBVIOUS
  <1>6. PICK records : records = IF good THEN scRun.records \o normalize_espn_summary_odds(p, g, scClock)
                                 ELSE scRun.records OBVIOUS
  <1>7. PICK run : run = [scRun EXCEPT !.asked = turn, !.evidence = evidence, !.rejects = rejects,
                                       !.records = records] OBVIOUS
  <1>8. PICK next : next = IF failures < Len(plan) /\ shape = "uncaught" THEN NoSportsCycle
                           ELSE IF last THEN Assembled(run) ELSE run OBVIOUS
  <1>9. Collecting("summary") /\ Continue(next)
    <2>1. run = [scRun EXCEPT !.asked = turn,
                    !.evidence = @ \cup Fetched(<<"summary", turn>>, failures, plan, <<shape, p>>),
                    !.rejects = @ + (IF failures < Len(plan) /\ shape = "caught" THEN 1 ELSE 0),
                    !.records = IF good THEN @ \o normalize_espn_summary_odds(p, g, scClock) ELSE @]
      BY Zenon, <1>4, <1>5, <1>6, <1>7
    <2> QED BY Zenon, <1>1, <1>2, <1>3, <1>8, <2>1 DEF FetchSummary
  <1>10. /\ RunTyped(scRun, scClock, scWorld, Len(scBatches)) /\ scRun.pc = "summary"
         /\ scClock \in Nat /\ RunCovers(scRun, scClock, scWorld)
    BY <1>9, InProgress DEF RunFits
  <1>11. scRun = [f \in CycleFields |-> scRun[f]] /\ scRun.asked \in Nat /\ scRun.rejects \in Nat
         /\ RecordsFit(scRun.records) /\ IsList(scRun.schedule)
         /\ \A i \in 1..Len(scRun.schedule) : scRun.schedule[i] \in Games
    BY <1>10 DEF RunTyped
  <1>12. /\ scRun.asked < Len(scRun.schedule) /\ scRun.asked < scRun.settings.summaries
         /\ LookedBack(scRun)
    BY <1>10 DEF RunCovers, LookedBack
  <1>13. scRun.settings.summaries \in Nat
    <2>1. scRun.settings \in CycleSettings BY <1>10 DEF RunTyped
    <2> QED BY <2>1, SettingsFit
  <1>14. Len(scRun.schedule) \in Nat BY <1>11 DEF IsList
  <1>15. turn \in 1..Len(scRun.schedule) /\ turn \in Nat BY <1>1, <1>11, <1>12, <1>14
  <1>16. RecordsFit(records)
    <2>1. g \in Games /\ scClock \in Int BY <1>2, <1>10, <1>11, <1>15
    <2>2. RecordsFit(normalize_espn_summary_odds(p, g, scClock)) BY <2>1, EventOddsFit
    <2> QED BY <1>6, <1>11, <2>2, RecordsJoin
  <1>17. rejects \in Nat BY <1>5, <1>11
  <1>18. /\ SameCycle(run, scRun) /\ run.pc = "summary" /\ run.rejects = rejects
         /\ run.asked = turn /\ run.schedule = scRun.schedule /\ run.finals = scRun.finals
         /\ run.records = records /\ run.caught = scRun.caught
    BY <1>7, <1>10, <1>11 DEF CycleFields, SameCycle
  <1>19. RunTyped(run, scClock, scWorld, Len(scBatches))
    <2>1. PagesFitRun(run, scWorld)
      BY Zenon, <1>10, <1>15, <1>16, <1>17, <1>18 DEF PagesFitRun, RunTyped
    <2>2. Collects(run.pc) BY <1>18 DEF Collects
    <2> QED BY <1>10, <1>18, <2>1, <2>2, TypedAnew
  <1>20. run.settings = scRun.settings /\ run.began = scRun.began BY <1>18 DEF SameCycle
  <1>21. LookedBack(run) BY <1>12, <1>18, <1>20 DEF LookedBack
  <1>22. \/ next = NoSportsCycle
         \/ RunFits(next, scClock, scWorld, scRows, Len(scBatches)) /\ next.pc # "finishing"
    <2>1. next = NoSportsCycle \/ next = Assembled(run) \/ (next = run /\ ~last) BY <1>8
    <2>2. CASE next = Assembled(run)
      <3>1. RunFits(next, scClock, scWorld, scRows, Len(scBatches)) /\ next.pc = "collected"
        BY <1>10, <1>19, <1>21, <2>2, AssembledFits
      <3> QED BY <3>1
    <2>3. CASE next = run /\ ~last
      <3>1. turn < Len(scRun.schedule) /\ turn < scRun.settings.summaries
        <4>1. PICK m, n : m = Len(scRun.schedule) /\ n = scRun.settings.summaries OBVIOUS
        <4>2. m \in Nat /\ n \in Nat /\ turn <= m /\ turn <= n /\ turn \in Nat
          BY <1>1, <1>11, <1>12, <1>13, <1>14, <4>1
        <4>3. turn # Min({m, n}) BY <1>2, <2>3, <4>1
        <4>4. Min({m, n}) = IF m <= n THEN m ELSE n BY <4>2 DEF Min
        <4>5. turn < m /\ turn < n BY <4>2, <4>3, <4>4
        <4> QED BY <4>1, <4>5
      <3>2. RunCovers(run, scClock, scWorld)
        BY <1>18, <1>20, <1>21, <3>1 DEF RunCovers, LookedBack
      <3>3. RunCounts(run, scRows) /\ RunSettles(run, scRows, scWorld)
        BY <1>18 DEF RunCounts, RunSettles
      <3> QED BY <1>18, <1>19, <2>3, <3>2, <3>3 DEF RunFits
    <2> QED BY <2>1, <2>2, <2>3
  <1> QED BY <1>9, <1>22, CycleContinues DEF Continue

-----------------------------------------------------------------------------
\* Batches

LEMMA ClaimsAlike ==
    ASSUME NEW batches, NEW next, Len(next) = Len(batches), NEW m,
           \A i \in 1..Len(batches) : next[i].accepted = batches[i].accepted,
           RowsClaimed(batches, m)
    PROVE  RowsClaimed(next, m)
  <1>1. PICK part \in [1..Len(batches) -> SUBSET (1..m)] :
           /\ \A i, j \in 1..Len(batches) : i # j => part[i] \cap part[j] = {}
           /\ \A i \in 1..Len(batches) : Cardinality(part[i]) = batches[i].accepted
    BY DEF RowsClaimed
  <1>2. /\ part \in [1..Len(next) -> SUBSET (1..m)]
        /\ \A i, j \in 1..Len(next) : i # j => part[i] \cap part[j] = {}
        /\ \A i \in 1..Len(next) : Cardinality(part[i]) = next[i].accepted
    BY <1>1
  <1> QED BY <1>2 DEF RowsClaimed

LEMMA BatchOpened ==
    ASSUME NEW batches, BatchesFit(batches), NEW evidence, NEW m \in Int, RowsClaimed(batches, m),
           NEW next, next = Append(batches, [evidence |-> evidence, status |-> "started",
                                             received |-> 0, accepted |-> 0, rejected |-> 0])
    PROVE  BatchesFit(next) /\ Len(next) = Len(batches) + 1 /\ RowsClaimed(next, m)
  <1>1. PICK b : b = [evidence |-> evidence, status |-> "started",
                      received |-> 0, accepted |-> 0, rejected |-> 0] OBVIOUS
  <1>2. BatchFits(b) /\ b.accepted = 0 BY <1>1 DEF BatchFits
  <1>3. /\ IsList(next) /\ Len(next) = Len(batches) + 1 /\ Len(batches) \in Nat
        /\ \A i \in 1..Len(batches) : next[i] = batches[i]
        /\ next[Len(batches) + 1] = b
    BY <1>1, AppendIs DEF BatchesFit, IsList
  <1>4. \A i \in 1..Len(next) : i \in 1..Len(batches) \/ i = Len(batches) + 1 BY <1>3
  <1>5. BatchesFit(next)
    <2>1. ASSUME NEW i \in 1..Len(next) PROVE BatchFits(next[i])
      <3>1. CASE i \in 1..Len(batches) BY <1>3, <3>1 DEF BatchesFit
      <3>2. CASE i = Len(batches) + 1 BY <1>2, <1>3, <3>2
      <3> QED BY <1>4, <3>1, <3>2
    <2> QED BY <1>3, <2>1 DEF BatchesFit
  <1>6. PICK part \in [1..Len(batches) -> SUBSET (1..m)] :
           /\ \A i, j \in 1..Len(batches) : i # j => part[i] \cap part[j] = {}
           /\ \A i \in 1..Len(batches) : Cardinality(part[i]) = batches[i].accepted
    BY DEF RowsClaimed
  <1>7. PICK more : more = [i \in 1..Len(next) |-> IF i \in 1..Len(batches) THEN part[i] ELSE {}]
    OBVIOUS
  <1>8. more \in [1..Len(next) -> SUBSET (1..m)]
    <2>1. \A i \in 1..Len(next) : more[i] \in SUBSET (1..m) BY <1>6, <1>7
    <2> QED BY <1>7, <2>1
  <1>9. \A i, j \in 1..Len(next) : i # j => more[i] \cap more[j] = {} BY <1>4, <1>6, <1>7
  <1>10. ASSUME NEW i \in 1..Len(next) PROVE Cardinality(more[i]) = next[i].accepted
    <2>1. CASE i \in 1..Len(batches) BY <1>3, <1>6, <1>7, <2>1
    <2>2. CASE i \notin 1..Len(batches)
      <3>1. more[i] = {} /\ next[i] = b BY <1>3, <1>4, <1>7, <2>2
      <3>2. Cardinality({}) = 0 BY FS_EmptySet
      <3> QED BY <1>2, <3>1, <3>2
    <2> QED BY <2>1, <2>2
  <1> QED BY <1>3, <1>5, <1>8, <1>9, <1>10 DEF RowsClaimed

\* What a batch says when it is over
DecidedAs(next, batches, k, status, received, accepted, rejected) ==
    next = [batches EXCEPT ![k] =
               IF @.status # "started" THEN @
               ELSE [@ EXCEPT !.status = status, !.received = received,
                              !.accepted = accepted, !.rejected = rejected]]

LEMMA BatchDecided ==
    ASSUME NEW batches, BatchesFit(batches), NEW k \in 1..Len(batches),
           NEW status \in {"completed", "completed_with_rejections", "failed", "blocked"},
           NEW received, NEW accepted \in Nat, NEW rejected,
           status \in {"completed", "completed_with_rejections"} => received = accepted + rejected,
           NEW next, DecidedAs(next, batches, k, status, received, accepted, rejected),
           NEW m \in Nat, RowsClaimed(batches, m)
    PROVE  BatchesFit(next) /\ Len(next) = Len(batches) /\ RowsClaimed(next, m + accepted)
  <1>1. PICK old : old = batches[k] OBVIOUS
  <1>2. PICK new : new = IF old.status # "started" THEN old
                         ELSE [old EXCEPT !.status = status, !.received = received,
                                          !.accepted = accepted, !.rejected = rejected] OBVIOUS
  <1>3. /\ Len(batches) \in Nat /\ batches = [i \in 1..Len(batches) |-> batches[i]]
        /\ BatchFits(old)
    BY <1>1 DEF BatchesFit, IsList
  <1>4. next = [i \in 1..Len(batches) |-> IF i = k THEN new ELSE batches[i]]
    BY <1>1, <1>2, <1>3 DEF DecidedAs
  <1>5. IsList(next) /\ Len(next) = Len(batches) BY <1>3, <1>4 DEF IsList
  <1>6. BatchFits(new) /\ (old.status = "started" => new.accepted = accepted /\ old.accepted = 0)
    <2>1. CASE old.status # "started" BY <1>2, <1>3, <2>1
    <2>2. CASE old.status = "started"
      <3>1. old = [f \in {"evidence", "status", "received", "accepted", "rejected"} |-> old[f]]
        BY <1>3 DEF BatchFits
      <3>2. new = [f \in {"evidence", "status", "received", "accepted", "rejected"} |-> new[f]]
            /\ new.status = status /\ new.received = received /\ new.accepted = accepted
            /\ new.rejected = rejected
        BY <1>2, <2>2, <3>1
      <3>3. BatchFits(new) BY <3>2 DEF BatchFits
      <3> QED BY <1>3, <2>2, <3>2, <3>3 DEF BatchFits
    <2> QED BY <2>1, <2>2
  <1>7. BatchesFit(next)
    <2>1. ASSUME NEW i \in 1..Len(next) PROVE BatchFits(next[i])
      <3>1. next[i] = IF i = k THEN new ELSE batches[i] BY <1>4, <1>5
      <3> QED BY <1>5, <1>6, <3>1 DEF BatchesFit
    <2> QED BY <1>5, <2>1 DEF BatchesFit
  <1>8. m + accepted \in Int /\ m <= m + accepted OBVIOUS
  <1>9. CASE old.status # "started"
    <2>1. \A i \in 1..Len(batches) : next[i].accepted = batches[i].accepted BY <1>1, <1>2, <1>4, <1>9
    <2>2. RowsClaimed(next, m) BY <1>5, <2>1, ClaimsAlike
    <2> QED BY <1>5, <1>7, <1>8, <2>2, ClaimsSpread
  <1>10. CASE old.status = "started"
    <2>1. PICK part \in [1..Len(batches) -> SUBSET (1..m)] :
             /\ \A i, j \in 1..Len(batches) : i # j => part[i] \cap part[j] = {}
             /\ \A i \in 1..Len(batches) : Cardinality(part[i]) = batches[i].accepted
      BY DEF RowsClaimed
    <2>2. PICK mine : mine = (m + 1)..(m + accepted) OBVIOUS
    <2>3. Cardinality(mine) = accepted
      <3>1. m + 1 \in Int /\ m + accepted \in Int OBVIOUS
      <3>2. Cardinality(mine) = IF m + 1 > m + accepted THEN 0 ELSE (m + accepted) - (m + 1) + 1
        BY <2>2, <3>1, FS_Interval
      <3> QED BY <3>2
    <2>4. PICK more : more = [i \in 1..Len(next) |-> IF i = k THEN mine ELSE part[i]] OBVIOUS
    <2>5. more \in [1..Len(next) -> SUBSET (1..(m + accepted))]
      <3>1. mine \in SUBSET (1..(m + accepted)) BY <2>2
      <3>2. SUBSET (1..m) \subseteq SUBSET (1..(m + accepted)) OBVIOUS
      <3>3. \A i \in 1..Len(next) : more[i] \in SUBSET (1..(m + accepted))
        BY <1>5, <2>1, <2>4, <3>1, <3>2
      <3> QED BY <2>4, <3>3
    <2>6. ASSUME NEW i \in 1..Len(next), NEW j \in 1..Len(next), i # j
          PROVE  more[i] \cap more[j] = {}
      <3>1. \A l \in 1..Len(batches) : part[l] \cap mine = {}
        <4>1. (1..m) \cap mine = {} BY <2>2
        <4>2. \A l \in 1..Len(batches) : part[l] \in SUBSET (1..m) BY <2>1
        <4> QED BY <4>1, <4>2
      <3> QED BY <1>5, <2>1, <2>4, <2>6, <3>1
    <2>7. ASSUME NEW i \in 1..Len(next) PROVE Cardinality(more[i]) = next[i].accepted
      <3>1. CASE i = k
        <4>1. more[i] = mine /\ next[i] = new BY <1>4, <1>5, <2>4, <3>1
        <4> QED BY <1>6, <1>10, <2>3, <4>1
      <3>2. CASE i # k
        <4>1. more[i] = part[i] /\ next[i] = batches[i] /\ i \in 1..Len(batches)
          BY <1>4, <1>5, <2>4, <3>2
        <4> QED BY <2>1, <4>1
      <3> QED BY <3>1, <3>2
    <2> QED BY <1>5, <1>7, <2>5, <2>6, <2>7 DEF RowsClaimed
  <1> QED BY <1>9, <1>10

LEMMA ClaimableIs ==
    ASSUME SportsInv
    PROVE  /\ Len(scRows) \in Nat /\ Claimable(scRun, scRows) \in Int
           /\ Claimable(scRun, scRows) <= Len(scRows)
           /\ RowsClaimed(scBatches, Len(scRows))
  <1>1. Len(scRows) \in Nat BY DEF SportsInv, SportsRowsFit, IsList
  <1>2. Claimable(scRun, scRows) \in Int /\ Claimable(scRun, scRows) <= Len(scRows)
    <2>1. CASE scRun.pc = "finishing"
      <3>1. RunTyped(scRun, scClock, scWorld, Len(scBatches))
        BY <2>1 DEF SportsInv, NoSportsCycle, RunFits
      <3>2. scRun.logged \in Nat BY <3>1 DEF RunTyped
      <3> QED BY <1>1, <2>1, <3>2 DEF Claimable
    <2>2. CASE scRun.pc # "finishing" BY <1>1, <2>2 DEF Claimable
    <2> QED BY <2>1, <2>2
  <1>3. RowsClaimed(scBatches, Len(scRows)) BY <1>1, <1>2, ClaimsSpread DEF SportsInv
  <1> QED BY <1>1, <1>2, <1>3

\* The batches and the cycle go on.
LEMMA BatchesGoOn ==
    ASSUME SportsInv, UNCHANGED <<scClock, scWorld, scRows, scRejected, scReport, scMatch>>,
           BatchesFit(scBatches'), RowsClaimed(scBatches', Len(scRows)),
           \/ scRun' = NoSportsCycle
           \/ /\ RunFits(scRun', scClock, scWorld, scRows, Len(scBatches'))
              /\ scRun'.pc # "finishing"
    PROVE  SportsInv'
  <1>1. scRun'.pc # "finishing" BY DEF NoSportsCycle
  <1>2. Claimable(scRun', scRows) = Len(scRows) BY <1>1, ClaimableIs DEF Claimable
  <1>3. FixturesKeepTheirTeams' BY DEF SportsInv, FixturesKeepTheirTeams
  <1>4. /\ scRows' = scRows /\ scRejected' = scRejected
        /\ scReport' = scReport /\ scClock' = scClock /\ scWorld' = scWorld
    OBVIOUS
  <1>5. scRun' = NoSportsCycle \/ RunFits(scRun', scClock', scWorld', scRows', Len(scBatches'))
    BY <1>4
  <1>6. RowsClaimed(scBatches', Claimable(scRun', scRows')) BY <1>2, <1>4
  <1>7. /\ scClock' \in Nat /\ scClock' <= MaxScClock /\ WorldFits(scWorld', scClock')
        /\ SportsRowsFit(scRows', scWorld') /\ scRejected' \in Nat
        /\ ClosesFit(scRows', scClock') /\ TotalsFit(scReport', scRows', scRejected')
    BY <1>4 DEF SportsInv
  <1> QED BY <1>3, <1>5, <1>6, <1>7 DEF SportsInv

LEMMA StartCycleKeeps ==
    ASSUME SportsInv, NEW s \in CycleSettings, NEW retry \in BOOLEAN, StartCycle(s, retry)
    PROVE  SportsInv'
  <1>1. PICK pc : pc = IF s.official THEN "official" ELSE IF s.scraper THEN "scoreboard" ELSE "blocked"
    OBVIOUS
  <1>2. PICK run : run = [pc |-> pc,
                 settings |-> s, evidence |-> {}, records |-> <<>>, finals |-> <<>>,
                 rejects |-> 0, errors |-> {}, asked |-> 0, schedule |-> <<>>,
                 caught |-> TRUE, began |-> scClock, payload |-> Payload, batch |-> 0, logged |-> 0,
                 refused |-> 0] OBVIOUS
  <1>3. PICK batches : batches = IF retry THEN scBatches
                 ELSE [i \in DOMAIN scBatches |-> [scBatches[i] EXCEPT !.evidence = {}]] OBVIOUS
  <1>4. /\ scBatches' = batches /\ scRun' = run
        /\ UNCHANGED <<scClock, scWorld, scRows, scRejected, scReport, scMatch>>
    BY <1>1, <1>2, <1>3 DEF StartCycle
  <1>5. BatchesFit(scBatches) /\ scClock \in Nat BY DEF SportsInv
  <1>6. BatchesFit(batches) /\ RowsClaimed(batches, Len(scRows))
    <2>1. CASE retry BY <1>3, <1>5, <2>1, ClaimableIs
    <2>2. CASE ~retry
      <3>1. Len(scBatches) \in Nat /\ DOMAIN scBatches = 1..Len(scBatches)
        BY <1>5 DEF BatchesFit, IsList
      <3>2. IsList(batches) /\ Len(batches) = Len(scBatches) BY <1>3, <2>2, <3>1 DEF IsList
      <3>3. ASSUME NEW i \in 1..Len(scBatches)
            PROVE  BatchFits(batches[i]) /\ batches[i].accepted = scBatches[i].accepted
        <4>1. PICK b, c : b = scBatches[i] /\ c = batches[i] OBVIOUS
        <4>2. BatchFits(b) BY <1>5, <4>1 DEF BatchesFit
        <4>3. c = [b EXCEPT !.evidence = {}] BY <1>3, <2>2, <3>1, <4>1
        <4>4. b = [f \in {"evidence", "status", "received", "accepted", "rejected"} |-> b[f]]
          BY <4>2 DEF BatchFits
        <4>5. /\ c = [f \in {"evidence", "status", "received", "accepted", "rejected"} |-> c[f]]
              /\ c.status = b.status /\ c.received = b.received /\ c.accepted = b.accepted
              /\ c.rejected = b.rejected
          BY <4>3, <4>4
        <4>6. BatchFits(c) BY <4>2, <4>5 DEF BatchFits
        <4> QED BY <4>1, <4>5, <4>6
      <3>4. BatchesFit(batches) BY <3>2, <3>3 DEF BatchesFit
      <3>5. RowsClaimed(batches, Len(scRows)) BY <3>2, <3>3, ClaimsAlike, ClaimableIs
      <3> QED BY <3>4, <3>5
    <2> QED BY <2>1, <2>2
  <1>7. RunFits(run, scClock, scWorld, scRows, Len(batches)) /\ run.pc # "finishing"
    <2>1. /\ run = [f \in CycleFields |-> run[f]] /\ run.pc = pc
      BY <1>2 DEF CycleFields
    <2>2. /\ run.settings = s /\ run.caught = TRUE /\ run.began = scClock /\ run.rejects = 0
          /\ run.asked = 0 /\ run.logged = 0 /\ run.refused = 0 /\ run.records = <<>>
          /\ run.finals = <<>> /\ run.payload = Payload /\ run.schedule = <<>> /\ run.batch = 0
      BY <1>2
    <2>3. pc \in {"official", "scoreboard", "blocked"} BY <1>1
    <2>4. RecordsFit(<<>>) /\ FinalsFit(<<>>, scWorld) /\ IsList(<<>>) /\ Len(<<>>) = 0
      BY DEF RecordsFit, FinalsFit, IsList
    <2>5. PayloadFits(Payload, scClock, scWorld) BY <1>5, <2>4 DEF PayloadFits, Payload
    <2>6. Len(batches) \in Nat BY <1>6 DEF BatchesFit, IsList
    <2>7. /\ run.caught \in BOOLEAN /\ run.began \in Nat /\ run.began <= scClock /\ run.rejects \in Nat
          /\ run.asked \in Nat /\ run.logged \in Nat /\ run.refused \in Nat
          /\ run.batch \in 0..Len(batches)
      <3>1. run.caught \in BOOLEAN BY <2>2
      <3>2. \A n \in Nat : n <= n /\ 0 \in 0..n OBVIOUS
      <3> QED BY Zenon, <1>5, <2>2, <2>6, <3>1, <3>2, 0 \in Nat
    <2>8. \A i \in 1..Len(<<>>) : FALSE BY <2>4
    <2>9. /\ RecordsFit(run.records) /\ FinalsFit(run.finals, scWorld) /\ IsList(run.schedule)
          /\ PayloadFits(run.payload, scClock, scWorld) /\ run.settings \in CycleSettings
          /\ \A i \in 1..Len(run.schedule) : run.schedule[i] \in Games
      BY <2>2, <2>4, <2>5, <2>8
    <2>10. run.pc \in Stages
           /\ run.pc \notin {"logging", "finishing", "settling", "closing", "reporting", "collected",
                             "prior", "summary"}
      BY <2>1, <2>3 DEF Stages
    <2>11. RunTyped(run, scClock, scWorld, Len(batches))
      <3>1. run.pc \notin {"logging", "finishing", "settling", "closing", "reporting"} BY <2>10
      <3> QED BY Zenon, <2>1, <2>7, <2>9, <2>10, <3>1 DEF RunTyped
    <2>12. RunCovers(run, scClock, scWorld) BY <2>10 DEF RunCovers
    <2>13. RunCounts(run, scRows) /\ RunSettles(run, scRows, scWorld)
      BY <2>10 DEF RunCounts, RunSettles
    <2> QED BY <2>10, <2>11, <2>12, <2>13 DEF RunFits
  <1> QED BY <1>4, <1>6, <1>7, BatchesGoOn

LEMMA SportsDeathKeeps == SportsInv /\ CycleDies => SportsInv'
  <1> SUFFICES ASSUME SportsInv, CycleDies PROVE SportsInv'
    OBVIOUS
  <1>1. scRun' = NoSportsCycle
        /\ UNCHANGED <<scClock, scWorld, scRows, scRejected, scBatches, scReport, scMatch>>
    BY DEF CycleDies
  <1> QED BY <1>1, CycleStops

\* A cycle past collecting keeps what it was given.
PastCollecting(next, run) ==
    /\ next = [f \in CycleFields |-> next[f]] /\ next.settings = run.settings
    /\ next.began = run.began /\ next.payload = run.payload /\ next.caught = run.caught
    /\ next.rejects = run.rejects /\ next.asked = run.asked /\ next.records = run.records
    /\ next.finals = run.finals /\ next.schedule = run.schedule
    /\ next.logged \in Nat /\ next.refused \in Nat

LEMMA TypedOn ==
    ASSUME NEW clock, NEW world, NEW batches, NEW run, RunTyped(run, clock, world, batches),
           NEW more \in Nat, NEW next, PastCollecting(next, run), next.pc \in Stages,
           next.batch \in 1..more
    PROVE  RunTyped(next, clock, world, more)
  <1>1. next.batch \in 0..more /\ next.batch > 0 OBVIOUS
  <1>2. /\ PayloadFits(next.payload, clock, world) /\ next.settings \in CycleSettings
        /\ next.began \in Nat /\ next.began <= clock /\ next.caught \in BOOLEAN
        /\ next.rejects \in Nat /\ next.asked \in Nat
        /\ RecordsFit(next.records) /\ FinalsFit(next.finals, world)
        /\ IsList(next.schedule) /\ \A i \in 1..Len(next.schedule) : next.schedule[i] \in Games
    BY Zenon DEF RunTyped, PastCollecting
  <1> QED BY Zenon, <1>1, <1>2 DEF RunTyped, PastCollecting

LEMMA CoversOn ==
    ASSUME NEW clock, NEW world, NEW run, RunCovers(run, clock, world),
           run.pc \in {"collected", "logging", "finishing", "settling", "closing"},
           NEW next, PastCollecting(next, run),
           next.pc \in {"logging", "finishing", "settling", "closing", "reporting"}
    PROVE  RunCovers(next, clock, world)
  BY DEF RunCovers, PastCollecting

LEMMA StartLedgerKeeps == SportsInv /\ _start_sports_collection_ledger => SportsInv'
  <1> SUFFICES ASSUME SportsInv, _start_sports_collection_ledger PROVE SportsInv'
    OBVIOUS
  <1>1. PICK known, fresh :
           /\ known = {i \in DOMAIN scBatches : scBatches[i].evidence = scRun.evidence}
           /\ fresh = [evidence |-> scRun.evidence, status |-> "started",
                       received |-> 0, accepted |-> 0, rejected |-> 0]
    OBVIOUS
  <1>2. PICK batches, batch :
           /\ batches = IF known = {} THEN Append(scBatches, fresh) ELSE scBatches
           /\ batch = IF known = {} THEN Len(scBatches) + 1 ELSE Max(known)
    OBVIOUS
  <1>3. PICK run : run = [scRun EXCEPT !.pc = "logging", !.batch = batch] OBVIOUS
  <1>4. /\ Collecting("collected") /\ scBatches' = batches /\ scRun' = run
        /\ UNCHANGED <<scClock, scWorld, scRows, scRejected, scReport, scMatch>>
    BY Zenon, <1>1, <1>2, <1>3 DEF _start_sports_collection_ledger
  <1>5. /\ RunTyped(scRun, scClock, scWorld, Len(scBatches)) /\ scRun.pc = "collected"
        /\ RunCovers(scRun, scClock, scWorld)
    BY <1>4, InProgress DEF RunFits
  <1>6. BatchesFit(scBatches) BY DEF SportsInv
  <1>7. Len(scBatches) \in Nat /\ DOMAIN scBatches = 1..Len(scBatches) BY <1>6 DEF BatchesFit, IsList
  <1>8. /\ BatchesFit(batches) /\ RowsClaimed(batches, Len(scRows))
        /\ Len(batches) \in Nat /\ batch \in 1..Len(batches)
    <2>1. CASE known = {}
      <3>1. Len(scRows) \in Int /\ RowsClaimed(scBatches, Len(scRows)) BY ClaimableIs
      <3>2. BatchesFit(batches) /\ Len(batches) = Len(scBatches) + 1 /\ RowsClaimed(batches, Len(scRows))
        BY <1>1, <1>2, <1>6, <2>1, <3>1, BatchOpened
      <3> QED BY <1>2, <1>7, <2>1, <3>2
    <2>2. CASE known # {}
      <3>1. known \in SUBSET (1..Len(scBatches)) BY <1>1, <1>7
      <3>2. Max(known) \in known BY <1>7, <2>2, <3>1, GreatestNumber
      <3> QED BY <1>2, <1>6, <1>7, <2>2, <3>1, <3>2, ClaimableIs
    <2> QED BY <2>1, <2>2
  <1>9. scRun = [f \in CycleFields |-> scRun[f]] /\ scRun.logged \in Nat /\ scRun.refused \in Nat
    BY <1>5 DEF RunTyped
  <1>10. PastCollecting(run, scRun) /\ run.pc = "logging" /\ run.batch = batch
    BY <1>3, <1>9 DEF CycleFields, PastCollecting
  <1>11. RunFits(run, scClock, scWorld, scRows, Len(batches)) /\ run.pc # "finishing"
    <2>1. run.pc \in Stages BY <1>10 DEF Stages
    <2>2. RunTyped(run, scClock, scWorld, Len(batches)) BY <1>5, <1>8, <1>10, <2>1, TypedOn
    <2>3. RunCovers(run, scClock, scWorld) BY <1>5, <1>10, CoversOn
    <2>4. RunCounts(run, scRows) /\ RunSettles(run, scRows, scWorld)
      BY <1>10 DEF RunCounts, RunSettles
    <2> QED BY <1>10, <2>2, <2>3, <2>4 DEF RunFits
  <1> QED BY <1>4, <1>8, <1>11, BatchesGoOn

LEMMA LoggingFailsKeeps == SportsInv /\ LoggingFails => SportsInv'
  <1> SUFFICES ASSUME SportsInv, LoggingFails PROVE SportsInv'
    OBVIOUS
  <1>1. /\ Collecting("logging") /\ Decided(scRun.batch, "failed", <<0, 0, 0>>)
        /\ scRun' = NoSportsCycle
        /\ UNCHANGED <<scClock, scWorld, scRows, scRejected, scReport, scMatch>>
    BY DEF LoggingFails
  <1>2. RunTyped(scRun, scClock, scWorld, Len(scBatches)) /\ scRun.pc = "logging"
    BY <1>1, InProgress
  <1>3. BatchesFit(scBatches) /\ Len(scBatches) \in Nat BY DEF SportsInv, BatchesFit, IsList
  <1>4. scRun.batch \in 1..Len(scBatches) BY <1>2, <1>3 DEF RunTyped
  <1>5. DecidedAs(scBatches', scBatches, scRun.batch, "failed", 0, 0, 0)
    BY <1>1 DEF Decided, DecidedAs
  <1>6. BatchesFit(scBatches') /\ RowsClaimed(scBatches', Len(scRows) + 0)
    BY <1>3, <1>4, <1>5, BatchDecided, ClaimableIs
  <1>7. Len(scRows) + 0 = Len(scRows) BY ClaimableIs
  <1> QED BY <1>1, <1>6, <1>7, BatchesGoOn

LEMMA FinishLedgerKeeps == SportsInv /\ _finish_sports_collection_ledger => SportsInv'
  <1> SUFFICES ASSUME SportsInv, _finish_sports_collection_ledger PROVE SportsInv'
    OBVIOUS
  <1>1. PICK p : p = scRun.payload OBVIOUS
  <1>2. PICK run : run = [scRun EXCEPT !.pc = "settling"] OBVIOUS
  <1>3. /\ Collecting("finishing") /\ scRun' = run
        /\ IF p.blocker # "" THEN Decided(scRun.batch, "blocked", <<0, 0, 0>>)
           ELSE Decided(scRun.batch, IF scRun.refused > 0 THEN "completed_with_rejections" ELSE "completed",
                        <<Len(p.records) + p.rejects, scRun.logged, scRun.refused>>)
        /\ UNCHANGED <<scClock, scWorld, scRows, scRejected, scReport, scMatch>>
    BY Zenon, <1>1, <1>2 DEF _finish_sports_collection_ledger
  <1>4. /\ RunTyped(scRun, scClock, scWorld, Len(scBatches)) /\ scRun.pc = "finishing"
        /\ RunCovers(scRun, scClock, scWorld) /\ RunCounts(scRun, scRows)
    BY <1>3, InProgress DEF RunFits
  <1>5. BatchesFit(scBatches) /\ Len(scBatches) \in Nat BY DEF SportsInv, BatchesFit, IsList
  <1>6. scRun.batch \in 1..Len(scBatches) BY <1>4, <1>5 DEF RunTyped
  <1>7. scRun = [f \in CycleFields |-> scRun[f]] /\ scRun.logged \in Nat /\ scRun.refused \in Nat
    BY <1>4 DEF RunTyped
  <1>8. /\ Len(p.records) + p.rejects = scRun.logged + scRun.refused /\ scRun.logged <= Len(scRows)
        /\ Len(scRows) \in Nat
    BY <1>1, <1>4, ClaimableIs DEF RunCounts
  <1>9. /\ BatchesFit(scBatches') /\ Len(scBatches') = Len(scBatches)
        /\ RowsClaimed(scBatches', Len(scRows))
    <2>1. CASE p.blocker # ""
      <3>1. DecidedAs(scBatches', scBatches, scRun.batch, "blocked", 0, 0, 0)
        BY <1>3, <2>1 DEF Decided, DecidedAs
      <3>2. /\ BatchesFit(scBatches') /\ Len(scBatches') = Len(scBatches)
            /\ RowsClaimed(scBatches', Len(scRows) + 0)
        BY <1>5, <1>6, <3>1, BatchDecided, ClaimableIs
      <3>3. Len(scRows) + 0 = Len(scRows) BY <1>8
      <3> QED BY <3>2, <3>3
    <2>2. CASE p.blocker = ""
      <3>1. PICK status, received :
               /\ status = IF scRun.refused > 0 THEN "completed_with_rejections" ELSE "completed"
               /\ received = Len(p.records) + p.rejects
        OBVIOUS
      <3>2. DecidedAs(scBatches', scBatches, scRun.batch, status, received, scRun.logged, scRun.refused)
        BY <1>3, <2>2, <3>1 DEF Decided, DecidedAs
      <3>3. PICK m : m = Len(scRows) - scRun.logged OBVIOUS
      <3>4. m \in Nat /\ m + scRun.logged = Len(scRows) BY <1>7, <1>8, <3>3
      <3>5. RowsClaimed(scBatches, m) BY <1>4, <3>3 DEF SportsInv, Claimable
      <3>6. status \in {"completed", "completed_with_rejections", "failed", "blocked"} BY <3>1
      <3>7. received = scRun.logged + scRun.refused BY <1>8, <3>1
      <3>8. /\ BatchesFit(scBatches') /\ Len(scBatches') = Len(scBatches)
            /\ RowsClaimed(scBatches', m + scRun.logged)
        <4>1. PICK k, accepted, rejected :
                 k = scRun.batch /\ accepted = scRun.logged /\ rejected = scRun.refused OBVIOUS
        <4>2. PICK old, next : old = scBatches /\ next = scBatches' OBVIOUS
        <4>3. DecidedAs(next, old, k, status, received, accepted, rejected) BY <3>2, <4>1, <4>2
        <4>4. /\ BatchesFit(old) /\ k \in 1..Len(old) /\ accepted \in Nat
              /\ received = accepted + rejected /\ RowsClaimed(old, m) /\ m \in Nat
          BY <1>5, <1>6, <1>7, <3>4, <3>5, <3>7, <4>1, <4>2
        <4>5. BatchesFit(next) /\ Len(next) = Len(old) /\ RowsClaimed(next, m + accepted)
          BY <3>6, <4>3, <4>4, BatchDecided
        <4> QED BY <4>1, <4>2, <4>5
      <3> QED BY <3>4, <3>8
    <2> QED BY <2>1, <2>2
  <1>10. PastCollecting(run, scRun) /\ run.pc = "settling" /\ run.batch = scRun.batch
    BY <1>2, <1>7 DEF CycleFields, PastCollecting
  <1>11. RunFits(run, scClock, scWorld, scRows, Len(scBatches')) /\ run.pc # "finishing"
    <2>1. run.pc \in Stages BY <1>10 DEF Stages
    <2>2. RunTyped(run, scClock, scWorld, Len(scBatches)) BY <1>4, <1>5, <1>6, <1>10, <2>1, TypedOn
    <2>3. RunCovers(run, scClock, scWorld) BY <1>4, <1>10, CoversOn
    <2>4. RunCounts(run, scRows) /\ RunSettles(run, scRows, scWorld)
      BY <1>10 DEF RunCounts, RunSettles
    <2> QED BY <1>9, <1>10, <2>2, <2>3, <2>4 DEF RunFits
  <1> QED BY <1>3, <1>9, <1>11, BatchesGoOn

-----------------------------------------------------------------------------
\* The log: rows are added, settled and given their closing lines.

LEMMA PicksCounted ==
    ASSUME NEW rows, IsList(rows), NEW ids, ids \subseteq 1..Len(rows)
    PROVE  /\ IsFiniteSet(ids) /\ IsFiniteSet(Picks(rows, ids))
           /\ Cardinality(ids) \in Nat /\ Cardinality(Picks(rows, ids)) \in Nat
  <1>1. Len(rows) \in Nat BY DEF IsList
  <1>2. IsFiniteSet(1..Len(rows)) BY <1>1, FS_Interval
  <1>3. IsFiniteSet(ids) BY <1>2, FS_Subset
  <1>4. PICK f : f = [i \in ids |-> PickOf(rows[i])] OBVIOUS
  <1>5. f \in Surjection(ids, Picks(rows, ids)) BY <1>4 DEF Surjection, Picks
  <1>6. IsFiniteSet(Picks(rows, ids)) BY <1>3, <1>5, FS_Surjection
  <1> QED BY <1>3, <1>6, FS_CardinalityType

\* What has been graded stays as it is graded, and no row is lost.
RowsGrow(old, new) ==
    /\ IsList(old) /\ IsList(new) /\ Len(old) <= Len(new)
    /\ \A i \in 1..Len(old) : /\ PickOf(new[i]) = PickOf(old[i])
                              /\ old[i].state \in Graded => /\ new[i].state = old[i].state
                                                            /\ new[i].outcome = old[i].outcome

LEMMA GradedStay ==
    ASSUME NEW old, NEW new, RowsGrow(old, new), NEW states, states \subseteq Graded
    PROVE  /\ OfState(old, states) \subseteq OfState(new, states)
           /\ OfState(new, states) \subseteq 1..Len(new)
           /\ Cardinality(OfState(old, states)) <= Cardinality(OfState(new, states))
  <1>1. Len(old) \in Nat /\ Len(new) \in Nat /\ Len(old) <= Len(new) BY DEF RowsGrow, IsList
  <1>2. 1..Len(old) \subseteq 1..Len(new) BY <1>1
  <1>3. OfState(old, states) \subseteq OfState(new, states) BY <1>2 DEF OfState, RowsGrow
  <1>4. OfState(new, states) \subseteq 1..Len(new) BY DEF OfState
  <1>5. IsFiniteSet(1..Len(new)) BY <1>1, FS_Interval
  <1>6. IsFiniteSet(OfState(new, states)) BY <1>4, <1>5, FS_Subset
  <1>7. Cardinality(OfState(old, states)) <= Cardinality(OfState(new, states))
    BY <1>3, <1>6, FS_Subset
  <1> QED BY <1>3, <1>4, <1>7

LEMMA PicksStay ==
    ASSUME NEW old, NEW new, RowsGrow(old, new), NEW ids, ids \subseteq 1..Len(old),
           NEW more, ids \subseteq more, more \subseteq 1..Len(new)
    PROVE  Cardinality(Picks(old, ids)) <= Cardinality(Picks(new, more))
  <1>1. \A i \in ids : PickOf(old[i]) = PickOf(new[i]) BY DEF RowsGrow
  <1>2. Picks(old, ids) \subseteq Picks(new, more) BY <1>1 DEF Picks
  <1>3. IsFiniteSet(Picks(new, more)) BY PicksCounted DEF RowsGrow
  <1> QED BY <1>2, <1>3, FS_Subset

LEMMA OutcomesStay ==
    ASSUME NEW old, NEW new, RowsGrow(old, new), NEW outcome
    PROVE  /\ OfOutcome(old, outcome) \subseteq OfOutcome(new, outcome)
           /\ OfOutcome(old, outcome) \subseteq 1..Len(old)
           /\ OfOutcome(new, outcome) \subseteq 1..Len(new)
  <1>1. OfState(old, Graded) \subseteq OfState(new, Graded) BY GradedStay
  <1>2. \A i \in OfState(old, Graded) : i \in 1..Len(old) /\ new[i].outcome = old[i].outcome
    BY DEF OfState, RowsGrow
  <1> QED BY <1>1, <1>2 DEF OfOutcome, OfState

LEMMA TotalsStay ==
    ASSUME NEW report, NEW old, NEW new, RowsGrow(old, new), NEW r \in Nat, NEW s \in Nat, r <= s,
           TotalsFit(report, old, r)
    PROVE  TotalsFit(report, new, s)
  <1>1. Len(old) \in Nat /\ Len(new) \in Nat /\ Len(old) <= Len(new) /\ IsList(old) /\ IsList(new)
    BY DEF RowsGrow, IsList
  <1>2. 1..Len(old) \subseteq 1..Len(new) BY <1>1
  <1>3. OfState(old, Graded) \subseteq 1..Len(old) BY DEF OfState
  <1>4. PICK settled, exposures, deduped, wins, losses, pushes, voids :
           /\ settled = Cardinality(OfState(old, Graded))
           /\ exposures = Cardinality(Picks(old, 1..Len(old)))
           /\ deduped = Cardinality(Picks(old, OfState(old, Graded)))
           /\ wins = Cardinality(Picks(old, OfOutcome(old, "win")))
           /\ losses = Cardinality(Picks(old, OfOutcome(old, "loss")))
           /\ pushes = Cardinality(OfState(old, {"push"}))
           /\ voids = Cardinality(OfState(old, {"void"}))
    OBVIOUS
  <1>5. PICK settled2, exposures2, deduped2, wins2, losses2, pushes2, voids2 :
           /\ settled2 = Cardinality(OfState(new, Graded))
           /\ exposures2 = Cardinality(Picks(new, 1..Len(new)))
           /\ deduped2 = Cardinality(Picks(new, OfState(new, Graded)))
           /\ wins2 = Cardinality(Picks(new, OfOutcome(new, "win")))
           /\ losses2 = Cardinality(Picks(new, OfOutcome(new, "loss")))
           /\ pushes2 = Cardinality(OfState(new, {"push"}))
           /\ voids2 = Cardinality(OfState(new, {"void"}))
    OBVIOUS
  <1>6. {"push"} \subseteq Graded /\ {"void"} \subseteq Graded /\ Graded \subseteq Graded BY DEF Graded
  <1>7. settled <= settled2 /\ pushes <= pushes2 /\ voids <= voids2 BY <1>4, <1>5, <1>6, GradedStay
  <1>8. exposures <= exposures2 BY <1>2, <1>4, <1>5, PicksStay
  <1>9. deduped <= deduped2
    <2>1. /\ OfState(old, Graded) \subseteq OfState(new, Graded)
          /\ OfState(new, Graded) \subseteq 1..Len(new)
      BY <1>6, GradedStay
    <2> QED BY <1>3, <1>4, <1>5, <2>1, PicksStay
  <1>10. wins <= wins2 /\ losses <= losses2 BY <1>4, <1>5, OutcomesStay, PicksStay
  <1>11. /\ settled \in Nat /\ exposures \in Nat /\ deduped \in Nat /\ wins \in Nat /\ losses \in Nat
         /\ pushes \in Nat /\ voids \in Nat
    <2>1. OfState(old, {"push"}) \subseteq 1..Len(old) /\ OfState(old, {"void"}) \subseteq 1..Len(old)
      BY DEF OfState
    <2>2. 1..Len(old) \subseteq 1..Len(old) OBVIOUS
    <2>3. OfOutcome(old, "win") \subseteq 1..Len(old) /\ OfOutcome(old, "loss") \subseteq 1..Len(old)
      BY OutcomesStay
    <2> QED BY <1>1, <1>3, <1>4, <2>1, <2>2, <2>3, PicksCounted
  <1>12. /\ settled2 \in Nat /\ exposures2 \in Nat /\ deduped2 \in Nat /\ wins2 \in Nat
         /\ losses2 \in Nat /\ pushes2 \in Nat /\ voids2 \in Nat
    <2>1. /\ OfState(new, {"push"}) \subseteq 1..Len(new) /\ OfState(new, {"void"}) \subseteq 1..Len(new)
          /\ OfState(new, Graded) \subseteq 1..Len(new)
      BY DEF OfState
    <2>2. 1..Len(new) \subseteq 1..Len(new) OBVIOUS
    <2>3. OfOutcome(new, "win") \subseteq 1..Len(new) /\ OfOutcome(new, "loss") \subseteq 1..Len(new)
      BY OutcomesStay
    <2> QED BY <1>1, <1>5, <2>1, <2>2, <2>3, PicksCounted
  <1>13. /\ report = [f \in DOMAIN NoTotals |-> report[f]]
         /\ \A f \in DOMAIN NoTotals : report[f] \in Nat
         /\ report.total <= Len(old) /\ report.rejected <= r /\ report.settled <= settled
         /\ report.exposures <= exposures /\ report.deduped <= deduped /\ report.wins <= wins
         /\ report.losses <= losses /\ report.pushes <= pushes /\ report.voids <= voids
    BY Zenon, <1>4 DEF TotalsFit
  <1>14. /\ report.total \in Nat /\ report.rejected \in Nat /\ report.settled \in Nat
         /\ report.exposures \in Nat /\ report.deduped \in Nat /\ report.wins \in Nat
         /\ report.losses \in Nat /\ report.pushes \in Nat /\ report.voids \in Nat
    BY <1>13 DEF NoTotals
  <1>15. /\ report.total <= Len(new) /\ report.rejected <= s /\ report.settled <= settled2
         /\ report.exposures <= exposures2 /\ report.deduped <= deduped2 /\ report.wins <= wins2
         /\ report.losses <= losses2 /\ report.pushes <= pushes2 /\ report.voids <= voids2
    <2>1. /\ report.total <= Len(old) /\ report.rejected <= r /\ report.settled <= settled
          /\ report.exposures <= exposures /\ report.deduped <= deduped /\ report.wins <= wins
          /\ report.losses <= losses /\ report.pushes <= pushes /\ report.voids <= voids
      BY Zenon, <1>13
    <2>2. report.total <= Len(new) /\ report.rejected <= s BY <1>1, <1>14, <2>1
    <2>3. report.settled <= settled2
      <3>1. /\ report.settled \in Nat /\ settled \in Nat /\ settled2 \in Nat
            /\ report.settled <= settled /\ settled <= settled2
        BY Zenon, <1>7, <1>11, <1>12, <1>14, <2>1
      <3> QED BY <3>1
    <2>4. report.exposures <= exposures2
      <3>1. /\ report.exposures \in Nat /\ exposures \in Nat /\ exposures2 \in Nat
            /\ report.exposures <= exposures /\ exposures <= exposures2
        BY Zenon, <1>8, <1>11, <1>12, <1>14, <2>1
      <3> QED BY <3>1
    <2>5. report.deduped <= deduped2
      <3>1. /\ report.deduped \in Nat /\ deduped \in Nat /\ deduped2 \in Nat
            /\ report.deduped <= deduped /\ deduped <= deduped2
        BY Zenon, <1>9, <1>11, <1>12, <1>14, <2>1
      <3> QED BY <3>1
    <2>6. report.wins <= wins2
      <3>1. /\ report.wins \in Nat /\ wins \in Nat /\ wins2 \in Nat
            /\ report.wins <= wins /\ wins <= wins2
        BY Zenon, <1>10, <1>11, <1>12, <1>14, <2>1
      <3> QED BY <3>1
    <2>7. report.losses <= losses2
      <3>1. /\ report.losses \in Nat /\ losses \in Nat /\ losses2 \in Nat
            /\ report.losses <= losses /\ losses <= losses2
        BY Zenon, <1>10, <1>11, <1>12, <1>14, <2>1
      <3> QED BY <3>1
    <2>8. report.pushes <= pushes2
      <3>1. /\ report.pushes \in Nat /\ pushes \in Nat /\ pushes2 \in Nat
            /\ report.pushes <= pushes /\ pushes <= pushes2
        BY Zenon, <1>7, <1>11, <1>12, <1>14, <2>1
      <3> QED BY <3>1
    <2>9. report.voids <= voids2
      <3>1. /\ report.voids \in Nat /\ voids \in Nat /\ voids2 \in Nat
            /\ report.voids <= voids /\ voids <= voids2
        BY Zenon, <1>7, <1>11, <1>12, <1>14, <2>1
      <3> QED BY <3>1
    <2> QED BY Zenon, <2>2, <2>3, <2>4, <2>5, <2>6, <2>7, <2>8, <2>9
  <1> QED BY Zenon, <1>5, <1>13, <1>15 DEF TotalsFit

\* The log and the cycle go on.
LEMMA RowsGoOn ==
    ASSUME SportsInv, UNCHANGED <<scClock, scWorld, scBatches, scReport, scMatch>>,
           scRejected' \in Nat, scRejected <= scRejected',
           SportsRowsFit(scRows', scWorld), RowsGrow(scRows, scRows'), ClosesFit(scRows', scClock),
           RunFits(scRun', scClock, scWorld, scRows', Len(scBatches)),
           RowsClaimed(scBatches, Claimable(scRun', scRows'))
    PROVE  SportsInv'
  <1>1. FixturesKeepTheirTeams' BY DEF SportsInv, FixturesKeepTheirTeams
  <1>2. TotalsFit(scReport, scRows', scRejected')
    <2>1. scRejected \in Nat /\ TotalsFit(scReport, scRows, scRejected) BY DEF SportsInv
    <2>2. PICK report, old, new, r, s : /\ report = scReport /\ old = scRows /\ new = scRows'
                                        /\ r = scRejected /\ s = scRejected' OBVIOUS
    <2>3. TotalsFit(report, old, r) /\ RowsGrow(old, new) /\ r \in Nat /\ s \in Nat /\ r <= s
      BY <2>1, <2>2
    <2>4. TotalsFit(report, new, s) BY <2>3, TotalsStay
    <2> QED BY <2>2, <2>4
  <1>3. /\ scBatches' = scBatches /\ scReport' = scReport /\ scClock' = scClock
        /\ scWorld' = scWorld
    OBVIOUS
  <1>4. /\ scClock' \in Nat /\ scClock' <= MaxScClock /\ WorldFits(scWorld', scClock')
        /\ BatchesFit(scBatches')
    BY <1>3 DEF SportsInv
  <1>5. /\ SportsRowsFit(scRows', scWorld') /\ ClosesFit(scRows', scClock')
        /\ TotalsFit(scReport', scRows', scRejected')
        /\ RunFits(scRun', scClock', scWorld', scRows', Len(scBatches'))
        /\ RowsClaimed(scBatches', Claimable(scRun', scRows'))
    BY <1>2, <1>3
  <1> QED BY <1>1, <1>4, <1>5 DEF SportsInv

LEMMA SportsLogKeeps == SportsInv /\ log_sports_predictions => SportsInv'
  <1> SUFFICES ASSUME SportsInv, log_sports_predictions PROVE SportsInv'
    OBVIOUS
  <1>1. PICK p, log : p = scRun.payload /\ log = Logged(scRows, p.records, p.at) OBVIOUS
  <1>2. PICK logged, refused :
           /\ logged = Len(log) - Len(scRows)
           /\ refused = Len(p.records) + p.rejects - (Len(log) - Len(scRows)) OBVIOUS
  <1>3. PICK run : run = [scRun EXCEPT !.pc = "finishing", !.logged = logged, !.refused = refused]
    OBVIOUS
  <1>4. /\ Collecting("logging") /\ scRows' = log /\ scRejected' = scRejected + refused
        /\ scRun' = run /\ UNCHANGED <<scClock, scWorld, scBatches, scReport, scMatch>>
    BY Zenon, <1>1, <1>2, <1>3 DEF log_sports_predictions
  <1>5. /\ RunTyped(scRun, scClock, scWorld, Len(scBatches)) /\ scRun.pc = "logging"
        /\ RunCovers(scRun, scClock, scWorld)
    BY <1>4, InProgress DEF RunFits
  <1>6. /\ RecordsFit(p.records) /\ p.at \in Nat /\ p.rejects \in Nat
        /\ scRun = [f \in CycleFields |-> scRun[f]]
    BY <1>1, <1>5 DEF RunTyped, PayloadFits
  <1>7. SportsRowsFit(scRows, scWorld) /\ IsList(scRows) /\ Len(scRows) \in Nat /\ scRejected \in Nat
    BY DEF SportsInv, SportsRowsFit, IsList
  <1>8. LogContinues(log, scRows, p.at, Len(p.records)) BY <1>1, <1>6, <1>7, LoggedIs
  <1>9. /\ IsList(log) /\ Len(log) \in Nat /\ Len(scRows) <= Len(log)
        /\ Len(p.records) \in Nat /\ Len(log) <= Len(scRows) + Len(p.records)
    BY <1>6, <1>8 DEF LogContinues, RecordsFit, IsList
  <1>10. logged \in Nat /\ refused \in Nat /\ logged + refused = Len(p.records) + p.rejects
         /\ logged <= Len(log) /\ Len(log) - logged = Len(scRows)
    BY <1>2, <1>6, <1>7, <1>9
  <1>11. ASSUME NEW i \in 1..Len(log)
         PROVE  \/ i \in 1..Len(scRows) /\ log[i] = scRows[i]
                \/ i \notin 1..Len(scRows) /\ FreshRow(log[i])
    <2>1. CASE i \in 1..Len(scRows) BY <1>8, <2>1 DEF LogContinues
    <2>2. CASE i \notin 1..Len(scRows)
      <3>1. i \in (Len(scRows) + 1)..Len(log) BY <1>7, <1>9, <2>2
      <3> QED BY <1>8, <2>2, <3>1 DEF LogContinues
    <2> QED BY <2>1, <2>2
  <1>12. SportsRowsFit(log, scWorld)
    <2>1. ASSUME NEW i \in 1..Len(log) PROVE RowFits(log[i], scWorld)
      <3>1. CASE i \in 1..Len(scRows) /\ log[i] = scRows[i] BY <1>7, <3>1 DEF SportsRowsFit
      <3>2. CASE FreshRow(log[i]) BY <3>2 DEF FreshRow, RowFits
      <3> QED BY <1>11, <3>1, <3>2
    <2> QED BY <1>9, <2>1 DEF SportsRowsFit
  <1>13. 1..Len(scRows) \subseteq 1..Len(log) BY <1>7, <1>9
  <1>14. RowsGrow(scRows, log)
    <2>1. \A i \in 1..Len(scRows) : log[i] = scRows[i] BY <1>8 DEF LogContinues
    <2> QED BY <1>7, <1>9, <2>1 DEF RowsGrow
  <1>15. ClosesFit(log, scClock)
    <2> SUFFICES ASSUME NEW i \in 1..Len(log), log[i].closing # NoOdds
                 PROVE  /\ \E j \in 1..Len(log) :
                              /\ PickOf(log[j]) = PickOf(log[i]) /\ log[j].book = log[i].book
                              /\ log[j].odds = log[i].closing /\ log[j].start <= scClock
                              /\ log[i].at <= log[j].at /\ log[j].at < log[j].start
                        /\ \A j \in 1..Len(log) :
                              /\ PickOf(log[j]) = PickOf(log[i]) /\ log[j].book = log[i].book
                              /\ log[j].closing # NoOdds
                              => log[j].closing = log[i].closing
      BY DEF ClosesFit
    <2>1. \A j \in 1..Len(log) : log[j].closing # NoOdds => j \in 1..Len(scRows)
      BY <1>11 DEF FreshRow
    <2>2. \A j \in 1..Len(scRows) : log[j] = scRows[j] BY <1>8 DEF LogContinues
    <2>3. i \in 1..Len(scRows) /\ log[i] = scRows[i] BY <2>1, <2>2
    <2>4. ClosesFit(scRows, scClock) BY DEF SportsInv
    <2>5. PICK j \in 1..Len(scRows) :
              /\ PickOf(scRows[j]) = PickOf(scRows[i]) /\ scRows[j].book = scRows[i].book
              /\ scRows[j].odds = scRows[i].closing /\ scRows[j].start <= scClock
              /\ scRows[i].at <= scRows[j].at /\ scRows[j].at < scRows[j].start
      BY <2>3, <2>4 DEF ClosesFit
    <2>6. j \in 1..Len(log) /\ log[j] = scRows[j] BY <1>13, <2>2
    <2>7. \A k \in 1..Len(log) :
              /\ PickOf(log[k]) = PickOf(log[i]) /\ log[k].book = log[i].book
              /\ log[k].closing # NoOdds
              => log[k].closing = log[i].closing
      BY <2>1, <2>2, <2>3, <2>4 DEF ClosesFit
    <2> QED BY <2>3, <2>5, <2>6, <2>7
  <1>16. PastCollecting(run, scRun) /\ run.pc = "finishing" /\ run.batch = scRun.batch
         /\ run.logged = logged /\ run.refused = refused /\ run.payload = p
    BY <1>1, <1>3, <1>6, <1>10 DEF CycleFields, PastCollecting
  <1>17. RunFits(run, scClock, scWorld, log, Len(scBatches))
    <2>1. Len(scBatches) \in Nat BY DEF SportsInv, BatchesFit, IsList
    <2>2. scRun.batch \in 1..Len(scBatches) BY <1>5, <2>1 DEF RunTyped
    <2>3. run.pc \in Stages BY <1>16 DEF Stages
    <2>4. RunTyped(run, scClock, scWorld, Len(scBatches)) BY <1>5, <1>16, <2>1, <2>2, <2>3, TypedOn
    <2>5. RunCovers(run, scClock, scWorld) BY <1>5, <1>16, CoversOn
    <2>6. RunCounts(run, log) BY <1>10, <1>16 DEF RunCounts
    <2>7. RunSettles(run, log, scWorld) BY <1>16 DEF RunSettles
    <2> QED BY <2>4, <2>5, <2>6, <2>7 DEF RunFits
  <1>18. RowsClaimed(scBatches, Claimable(run, log))
    <2>1. Claimable(run, log) = Len(scRows) BY <1>10, <1>16 DEF Claimable
    <2> QED BY <2>1, ClaimableIs
  <1>19. scRejected' \in Nat /\ scRejected <= scRejected' BY <1>4, <1>7, <1>10
  <1> QED BY <1>4, <1>12, <1>14, <1>15, <1>17, <1>18, <1>19, RowsGoOn

\* A grade reads the bet and the final, and is one of these.
LEMMA GradeReads ==
    ASSUME NEW a, NEW b, a.market = b.market, a.selection = b.selection, a.line = b.line, NEW e
    PROVE  _grade_market(a, e) = _grade_market(b, e)
  BY DEF _grade_market

LEMMA GradesAre ==
    ASSUME NEW g \in Grades
    PROVE  /\ g = <<g[1], g[2]>>
           /\ \/ g = <<"unresolved", "">> /\ g[1] = "unresolved" /\ g[2] = ""
              \/ g[1] \in Graded
  <1>1. CASE g = <<"void", "postponed">>
    <2>1. g[1] = "void" /\ g[2] = "postponed" BY <1>1
    <2> QED BY Zenon, <1>1, <2>1 DEF Graded
  <1>2. CASE g = <<"void", "canceled">>
    <2>1. g[1] = "void" /\ g[2] = "canceled" BY <1>2
    <2> QED BY Zenon, <1>2, <2>1 DEF Graded
  <1>3. CASE g = <<"unresolved", "">>
    <2>1. g[1] = "unresolved" /\ g[2] = "" BY <1>3
    <2> QED BY Zenon, <1>3, <2>1
  <1>4. CASE g = <<"push", "push">>
    <2>1. g[1] = "push" /\ g[2] = "push" BY <1>4
    <2> QED BY Zenon, <1>4, <2>1 DEF Graded
  <1>5. CASE g = <<"settled", "win">>
    <2>1. g[1] = "settled" /\ g[2] = "win" BY <1>5
    <2> QED BY Zenon, <1>5, <2>1 DEF Graded
  <1>6. CASE g = <<"settled", "loss">>
    <2>1. g[1] = "settled" /\ g[2] = "loss" BY <1>6
    <2> QED BY Zenon, <1>6, <2>1 DEF Graded
  <1> QED BY Zenon, <1>1, <1>2, <1>3, <1>4, <1>5, <1>6 DEF Grades

GradedAs(next, row, grade) == next = [row EXCEPT !.state = grade[1], !.outcome = grade[2]]

LEMMA RowSettled ==
    ASSUME NEW world, NEW row, RowFits(row, world), row.state = "unresolved",
           IsFinal(world[row.event]), ScoresFit(world[row.event]),
           NEW grade, grade = _grade_market(row, FinalOf(world[row.event])),
           NEW next, GradedAs(next, row, grade)
    PROVE  /\ RowFits(next, world) /\ PickOf(next) = PickOf(row)
           /\ next.event = row.event /\ next.book = row.book /\ next.odds = row.odds
           /\ next.at = row.at /\ next.start = row.start /\ next.closing = row.closing
           /\ NoScore \notin {world[row.event].home, world[row.event].away} =>
                 next.state # "unresolved"
  <1>1. RowPosted(row) BY DEF RowFits
  <1>2. PICK e : e = FinalOf(world[row.event]) OBVIOUS
  <1>3. ScoresFit(e) /\ e.home = world[row.event].home /\ e.away = world[row.event].away
    BY <1>2 DEF FinalOf, ScoresFit
  <1>4. /\ grade \in Grades /\ (Voided(e) => grade[1] = "void")
        /\ ~Voided(e) /\ NoScore \in {e.home, e.away} => grade = <<"unresolved", "">>
        /\ ~Voided(e) /\ NoScore \notin {e.home, e.away} => grade = Against(Margin(row, e))
    <2>1. OfferFits(row) BY <1>1 DEF RowPosted, RecordFits
    <2> QED BY <1>2, <1>3, <2>1, GradeIs
  <1>5. /\ grade = <<grade[1], grade[2]>>
        /\ \/ grade = <<"unresolved", "">> /\ grade[1] = "unresolved" /\ grade[2] = ""
           \/ grade[1] \in Graded
    <2>1. grade \in Grades BY <1>4
    <2> QED BY <2>1, GradesAre
  <1>6. next = [event |-> row.event, market |-> row.market, selection |-> row.selection,
           line |-> row.line, odds |-> row.odds, book |-> row.book, at |-> row.at,
           fetched |-> row.fetched, start |-> row.start, time |-> row.time,
           confidence |-> row.confidence, state |-> grade[1], outcome |-> grade[2],
           closing |-> row.closing, clv |-> row.clv]
    BY <1>1 DEF RowPosted, RowShape, GradedAs
  <1>7. /\ next.event = row.event /\ next.market = row.market /\ next.selection = row.selection
        /\ next.line = row.line /\ next.odds = row.odds /\ next.book = row.book /\ next.at = row.at
        /\ next.fetched = row.fetched /\ next.start = row.start /\ next.time = row.time
        /\ next.confidence = row.confidence /\ next.state = grade[1] /\ next.outcome = grade[2]
        /\ next.closing = row.closing /\ next.clv = row.clv
    BY Zenon, <1>6
  <1>8. RowPosted(next)
    <2>1. RowShape(next) BY Zenon, <1>6, <1>7 DEF RowShape
    <2>2. RecordFits(next) BY <1>1, <1>7 DEF RowPosted, RecordFits, OfferFits
    <2>3. /\ next.time \in Nat /\ next.time < next.start /\ next.at < next.start
          /\ next.confidence \in 500..690 /\ next.closing \in Int
      BY Zenon, <1>1, <1>7 DEF RowPosted
    <2> QED BY <2>1, <2>2, <2>3 DEF RowPosted
  <1>9. _grade_market(next, e) = grade BY <1>2, <1>7, GradeReads
  <1>10. RowFits(next, world)
    <2>1. CASE grade[1] = "unresolved" /\ grade[2] = ""
      <3>1. next.state = "unresolved" /\ next.outcome = "" BY Zenon, <1>7, <2>1
      <3> QED BY <1>8, <3>1 DEF RowFits
    <2>2. CASE grade[1] \in Graded
      <3>1. <<next.state, next.outcome>> = grade BY <1>5, <1>7
      <3>2. <<next.state, next.outcome>> = _grade_market(next, FinalOf(world[next.event]))
        BY Zenon, <1>2, <1>7, <1>9, <3>1
      <3>3. IsFinal(world[next.event]) /\ next.state \in Graded BY Zenon, <1>7, <2>2
      <3> QED BY <1>8, <3>2, <3>3 DEF RowFits
    <2> QED BY <1>5, <2>1, <2>2
  <1>11. PickOf(next) = PickOf(row) BY <1>7 DEF PickOf
  <1>12. NoScore \notin {world[row.event].home, world[row.event].away} => next.state # "unresolved"
    <2> SUFFICES ASSUME NoScore \notin {e.home, e.away} PROVE grade[1] # "unresolved"
      BY <1>3, <1>7
    <2>1. CASE Voided(e) BY <1>4, <2>1
    <2>2. CASE ~Voided(e)
      <3>1. grade = Against(Margin(row, e)) BY <1>4, <2>2
      <3>2. \A m : Against(m)[1] # "unresolved" BY DEF Against
      <3> QED BY <3>1, <3>2
    <2> QED BY <2>1, <2>2
  <1> QED BY <1>7, <1>10, <1>11, <1>12

LEMMA SportsSettleKeeps == SportsInv /\ settle_sports_predictions => SportsInv'
  <1> SUFFICES ASSUME SportsInv, settle_sports_predictions PROVE SportsInv'
    OBVIOUS
  <1>1. PICK finals : finals = scRun.payload.finals OBVIOUS
  <1>2. PICK rows : rows = [i \in DOMAIN scRows |->
                    IF scRows[i].state = "unresolved" /\ scRows[i].event \in DOMAIN finals
                    THEN LET grade == _grade_market(scRows[i], finals[scRows[i].event])
                         IN  [scRows[i] EXCEPT !.state = grade[1], !.outcome = grade[2]]
                    ELSE scRows[i]] OBVIOUS
  <1>3. PICK run : run = [scRun EXCEPT !.pc = "closing"] OBVIOUS
  <1>4. /\ Collecting("settling") /\ scRows' = rows /\ scRun' = run /\ scRejected' = scRejected
        /\ UNCHANGED <<scClock, scWorld, scBatches, scReport, scMatch>>
    BY Zenon, <1>1, <1>2, <1>3 DEF settle_sports_predictions
  <1>5. /\ RunTyped(scRun, scClock, scWorld, Len(scBatches)) /\ scRun.pc = "settling"
        /\ RunCovers(scRun, scClock, scWorld)
    BY <1>4, InProgress DEF RunFits
  <1>6. SportsRowsFit(scRows, scWorld) /\ Len(scRows) \in Nat /\ DOMAIN scRows = 1..Len(scRows)
        /\ IsList(scRows) /\ scRejected \in Nat
    BY DEF SportsInv, SportsRowsFit, IsList
  <1>7. IsList(rows) /\ Len(rows) = Len(scRows)
    <2>1. DOMAIN rows = DOMAIN scRows /\ rows = [i \in DOMAIN rows |-> rows[i]] BY Zenon, <1>2
    <2> QED BY <1>6, <2>1 DEF IsList
  <1>8. FinalsFit(finals, scWorld) BY <1>1, <1>5 DEF RunTyped, PayloadFits
  <1>9. ASSUME NEW i \in 1..Len(scRows)
        PROVE  /\ RowFits(rows[i], scWorld) /\ PickOf(rows[i]) = PickOf(scRows[i])
               /\ rows[i].event = scRows[i].event /\ rows[i].book = scRows[i].book
               /\ rows[i].odds = scRows[i].odds /\ rows[i].at = scRows[i].at
               /\ rows[i].start = scRows[i].start /\ rows[i].closing = scRows[i].closing
               /\ scRows[i].state # "unresolved" => rows[i] = scRows[i]
               /\ /\ rows[i].event \in DOMAIN finals
                  /\ NoScore \notin {scWorld[rows[i].event].home, scWorld[rows[i].event].away}
                  => rows[i].state # "unresolved"
    <2>1. PICK row, next : row = scRows[i] /\ next = rows[i] OBVIOUS
    <2>2. RowFits(row, scWorld) BY <1>6, <2>1 DEF SportsRowsFit
    <2>3. CASE row.state = "unresolved" /\ row.event \in DOMAIN finals
      <3>1. PICK grade : grade = _grade_market(row, finals[row.event]) OBVIOUS
      <3>2. GradedAs(next, row, grade) BY <1>2, <1>6, <2>1, <2>3, <3>1 DEF GradedAs
      <3>3. /\ row.event \in Games /\ IsFinal(scWorld[row.event])
            /\ finals[row.event] = FinalOf(scWorld[row.event])
        BY <1>8, <2>3 DEF FinalsFit
      <3>4. ScoresFit(scWorld[row.event]) BY <3>3 DEF SportsInv, WorldFits, EndingFits
      <3>5. /\ RowFits(next, scWorld) /\ PickOf(next) = PickOf(row)
            /\ next.event = row.event /\ next.book = row.book /\ next.odds = row.odds
            /\ next.at = row.at /\ next.start = row.start /\ next.closing = row.closing
            /\ NoScore \notin {scWorld[row.event].home, scWorld[row.event].away} =>
                  next.state # "unresolved"
        BY <2>2, <2>3, <3>1, <3>2, <3>3, <3>4, RowSettled
      <3> QED BY Zenon, <2>1, <2>3, <3>5
    <2>4. CASE ~(row.state = "unresolved" /\ row.event \in DOMAIN finals)
      <3>1. next = row BY <1>2, <1>6, <2>1, <2>4
      <3> QED BY Zenon, <2>1, <2>2, <2>4, <3>1
    <2> QED BY <2>3, <2>4
  <1>10. SportsRowsFit(rows, scWorld) BY <1>7, <1>9 DEF SportsRowsFit
  <1>11. RowsGrow(scRows, rows)
    <2>1. "unresolved" \notin Graded BY DEF Graded
    <2>2. ASSUME NEW i \in 1..Len(scRows)
          PROVE  /\ PickOf(rows[i]) = PickOf(scRows[i])
                 /\ scRows[i].state \in Graded => /\ rows[i].state = scRows[i].state
                                                  /\ rows[i].outcome = scRows[i].outcome
      <3>1. scRows[i].state \in Graded => rows[i] = scRows[i] BY Zenon, <1>9, <2>1
      <3> QED BY Zenon, <1>9, <3>1
    <2> QED BY <1>6, <1>7, <2>2 DEF RowsGrow
  <1>12. ClosesFit(rows, scClock)
    <2> SUFFICES ASSUME NEW i \in 1..Len(rows), rows[i].closing # NoOdds
                 PROVE  /\ \E j \in 1..Len(rows) :
                              /\ PickOf(rows[j]) = PickOf(rows[i]) /\ rows[j].book = rows[i].book
                              /\ rows[j].odds = rows[i].closing /\ rows[j].start <= scClock
                              /\ rows[i].at <= rows[j].at /\ rows[j].at < rows[j].start
                        /\ \A j \in 1..Len(rows) :
                              /\ PickOf(rows[j]) = PickOf(rows[i]) /\ rows[j].book = rows[i].book
                              /\ rows[j].closing # NoOdds
                              => rows[j].closing = rows[i].closing
      BY DEF ClosesFit
    <2>1. \A j \in 1..Len(rows) :
             /\ PickOf(rows[j]) = PickOf(scRows[j]) /\ rows[j].book = scRows[j].book
             /\ rows[j].odds = scRows[j].odds /\ rows[j].at = scRows[j].at
             /\ rows[j].start = scRows[j].start /\ rows[j].closing = scRows[j].closing
      BY Zenon, <1>7, <1>9
    <2>2. i \in 1..Len(scRows) /\ scRows[i].closing # NoOdds /\ ClosesFit(scRows, scClock)
      BY <1>7, <2>1 DEF SportsInv
    <2>3. PICK j \in 1..Len(scRows) :
              /\ PickOf(scRows[j]) = PickOf(scRows[i]) /\ scRows[j].book = scRows[i].book
              /\ scRows[j].odds = scRows[i].closing /\ scRows[j].start <= scClock
              /\ scRows[i].at <= scRows[j].at /\ scRows[j].at < scRows[j].start
      BY <2>2 DEF ClosesFit
    <2>4. \A k \in 1..Len(scRows) :
              /\ PickOf(scRows[k]) = PickOf(scRows[i]) /\ scRows[k].book = scRows[i].book
              /\ scRows[k].closing # NoOdds
              => scRows[k].closing = scRows[i].closing
      BY <2>2 DEF ClosesFit
    <2>5. j \in 1..Len(rows) BY <1>7
    <2>6. /\ PickOf(rows[j]) = PickOf(rows[i]) /\ rows[j].book = rows[i].book
          /\ rows[j].odds = rows[i].closing /\ rows[j].start <= scClock
          /\ rows[i].at <= rows[j].at /\ rows[j].at < rows[j].start
      BY Zenon, <2>1, <2>3, <2>5
    <2>7. \A k \in 1..Len(rows) :
              /\ PickOf(rows[k]) = PickOf(rows[i]) /\ rows[k].book = rows[i].book
              /\ rows[k].closing # NoOdds
              => rows[k].closing = rows[i].closing
      BY Zenon, <1>7, <2>1, <2>4
    <2> QED BY Zenon, <2>5, <2>6, <2>7
  <1>13. scRun = [f \in CycleFields |-> scRun[f]] /\ scRun.logged \in Nat /\ scRun.refused \in Nat
    BY <1>5 DEF RunTyped
  <1>14. PastCollecting(run, scRun) /\ run.pc = "closing" /\ run.batch = scRun.batch
    BY <1>3, <1>13 DEF CycleFields, PastCollecting
  <1>15. RunFits(run, scClock, scWorld, rows, Len(scBatches))
    <2>1. Len(scBatches) \in Nat BY DEF SportsInv, BatchesFit, IsList
    <2>2. scRun.batch \in 1..Len(scBatches) BY <1>5, <2>1 DEF RunTyped
    <2>3. run.pc \in Stages BY <1>14 DEF Stages
    <2>4. RunTyped(run, scClock, scWorld, Len(scBatches)) BY <1>5, <1>14, <2>1, <2>2, <2>3, TypedOn
    <2>5. RunCovers(run, scClock, scWorld) BY <1>5, <1>14, CoversOn
    <2>6. RunCounts(run, rows) BY <1>14 DEF RunCounts
    <2>7. RunSettles(run, rows, scWorld)
      <3>1. run.payload.finals = finals BY <1>1, <1>14 DEF PastCollecting
      <3> QED BY Zenon, <1>7, <1>9, <3>1 DEF RunSettles
    <2> QED BY <2>4, <2>5, <2>6, <2>7 DEF RunFits
  <1>16. RowsClaimed(scBatches, Claimable(run, rows))
    <2>1. Claimable(run, rows) = Len(scRows) BY <1>6, <1>7, <1>14 DEF Claimable
    <2> QED BY <2>1, ClaimableIs
  <1>17. scRejected' \in Nat /\ scRejected <= scRejected' BY <1>4, <1>6
  <1> QED BY <1>4, <1>10, <1>11, <1>12, <1>15, <1>16, <1>17, RowsGoOn

\* The rows a closing line is taken from, and the one it is taken from
PostedBefore(row) ==
    {i \in DOMAIN scRows : /\ PickOf(scRows[i]) = PickOf(row) /\ scRows[i].book = row.book
                           /\ scRows[i].start <= scClock /\ scRows[i].at < scRows[i].start}
ClosesAt(row, m) ==
    /\ m \in PostedBefore(row) /\ ClosingRow(row) = {m}
    /\ \A i \in PostedBefore(row) : scRows[i].at <= scRows[m].at

LEMMA ClosingRowIs ==
    ASSUME SportsInv, NEW row, row.event \in Games
    PROVE  /\ ClosingRow(row) \subseteq PostedBefore(row)
           /\ PostedBefore(row) # {} => \E m : ClosesAt(row, m)
  <1>1. PICK before : before = PostedBefore(row) OBVIOUS
  <1>2. ClosingRow(row) = {i \in before : \A j \in before : scRows[j].at < scRows[i].at
                                            \/ (scRows[j].at = scRows[i].at /\ j <= i)}
    BY Zenon, <1>1 DEF ClosingRow, PostedBefore
  <1>3. ClosingRow(row) \subseteq before BY Zenon, <1>2
  <1>4. SportsRowsFit(scRows, scWorld) /\ Len(scRows) \in Nat /\ DOMAIN scRows = 1..Len(scRows)
    BY DEF SportsInv, SportsRowsFit, IsList
  <1>5. before \subseteq 1..Len(scRows) BY <1>1, <1>4 DEF PostedBefore
  <1>6. PICK start : start = GameFacts[row.event].start OBVIOUS
  <1>7. start \in Nat BY <1>6, SportsCycleAssumption
  <1>8. ASSUME NEW i \in before
        PROVE  scRows[i].at \in Int /\ scRows[i].at < start
    <2>1. PICK r : r = scRows[i] OBVIOUS
    <2>2. RecordFits(r) BY <1>4, <1>5, <2>1 DEF SportsRowsFit, RowFits, RowPosted
    <2>3. PickOf(r) = PickOf(row) /\ r.at < r.start BY <1>1, <2>1 DEF PostedBefore
    <2>4. r.event = row.event BY <2>3 DEF PickOf
    <2>5. r.start = start /\ r.at \in Int BY <1>6, <2>2, <2>4 DEF RecordFits
    <2> QED BY Zenon, <2>1, <2>3, <2>5
  <1>9. ASSUME before # {} PROVE \E m : ClosesAt(row, m)
    <2>1. PICK waits : waits = {start - scRows[i].at : i \in before} OBVIOUS
    <2>2. waits \in SUBSET Nat BY <1>7, <1>8, <2>1
    <2>3. waits # {} BY <1>9, <2>1
    <2>4. PICK d \in waits : \A w \in waits : d <= w BY <2>2, <2>3, LeastNumber
    <2>5. PICK last : last = {i \in before : start - scRows[i].at = d} OBVIOUS
    <2>6. last # {} BY <2>1, <2>4, <2>5
    <2>7. last \in SUBSET (1..Len(scRows)) BY <1>5, <2>5
    <2>8. PICK m \in last : \A i \in last : i <= m BY <1>4, <2>6, <2>7, GreatestNumber
    <2>9. m \in before /\ start - scRows[m].at = d BY <2>5, <2>8
    <2>10. \A i \in before : scRows[i].at <= scRows[m].at
      <3> SUFFICES ASSUME NEW i \in before PROVE scRows[i].at <= scRows[m].at
        OBVIOUS
      <3>1. d <= start - scRows[i].at BY <2>1, <2>4
      <3> QED BY <1>7, <1>8, <2>9, <3>1
    <2>11. \A i \in before : scRows[i].at = scRows[m].at => i <= m BY <2>5, <2>8, <2>9
    <2>12. m \in ClosingRow(row)
      <3> SUFFICES ASSUME NEW j \in before
                   PROVE  scRows[j].at < scRows[m].at \/ (scRows[j].at = scRows[m].at /\ j <= m)
        BY <1>2, <2>9
      <3>1. scRows[j].at <= scRows[m].at BY <2>10
      <3>2. scRows[j].at \in Int /\ scRows[m].at \in Int BY <1>8, <2>9
      <3>3. CASE scRows[j].at = scRows[m].at BY <2>11, <3>3
      <3>4. CASE scRows[j].at # scRows[m].at BY <3>1, <3>2, <3>4
      <3> QED BY <3>3, <3>4
    <2>13. ASSUME NEW i \in ClosingRow(row) PROVE i = m
      <3>1. i \in before /\ i \in Nat /\ m \in Nat
        <4>1. i \in before BY Zenon, <1>3
        <4> QED BY <1>5, <2>9, <4>1
      <3>2. scRows[m].at < scRows[i].at \/ (scRows[m].at = scRows[i].at /\ m <= i)
        BY Zenon, <1>2, <2>9, <2>13
      <3>3. scRows[i].at <= scRows[m].at /\ scRows[i].at \in Int /\ scRows[m].at \in Int
        BY Zenon, <1>8, <2>9, <2>10, <3>1
      <3>4. scRows[i].at = scRows[m].at /\ m <= i BY <3>2, <3>3
      <3>5. i <= m BY <2>11, <3>1, <3>4
      <3> QED BY <3>1, <3>4, <3>5
    <2>14. ClosingRow(row) = {m} BY Zenon, <2>12, <2>13
    <2> QED BY Zenon, <1>1, <2>9, <2>10, <2>14 DEF ClosesAt
  <1> QED BY <1>1, <1>3, <1>9

\* A row and the same row with a closing line
ClosedAs(next, row, odds, clv) == next = [row EXCEPT !.closing = odds, !.clv = clv]

LEMMA RowClosed ==
    ASSUME NEW world, NEW row, RowFits(row, world), NEW odds \in Int, NEW clv,
           NEW next, ClosedAs(next, row, odds, clv)
    PROVE  /\ RowFits(next, world) /\ PickOf(next) = PickOf(row)
           /\ next.event = row.event /\ next.book = row.book /\ next.odds = row.odds
           /\ next.at = row.at /\ next.start = row.start /\ next.closing = odds
           /\ next.state = row.state /\ next.outcome = row.outcome
  <1>1. RowPosted(row) BY DEF RowFits
  <1>2. next = [event |-> row.event, market |-> row.market, selection |-> row.selection,
           line |-> row.line, odds |-> row.odds, book |-> row.book, at |-> row.at,
           fetched |-> row.fetched, start |-> row.start, time |-> row.time,
           confidence |-> row.confidence, state |-> row.state, outcome |-> row.outcome,
           closing |-> odds, clv |-> clv]
    BY <1>1 DEF RowPosted, RowShape, ClosedAs
  <1>3. /\ next.event = row.event /\ next.market = row.market /\ next.selection = row.selection
        /\ next.line = row.line /\ next.odds = row.odds /\ next.book = row.book /\ next.at = row.at
        /\ next.fetched = row.fetched /\ next.start = row.start /\ next.time = row.time
        /\ next.confidence = row.confidence /\ next.state = row.state /\ next.outcome = row.outcome
        /\ next.closing = odds /\ next.clv = clv
    BY Zenon, <1>2
  <1>4. RowPosted(next)
    <2>1. RowShape(next) BY Zenon, <1>2, <1>3 DEF RowShape
    <2>2. RecordFits(next) BY <1>1, <1>3 DEF RowPosted, RecordFits, OfferFits
    <2>3. /\ next.time \in Nat /\ next.time < next.start /\ next.at < next.start
          /\ next.confidence \in 500..690 /\ next.closing \in Int
      BY Zenon, <1>1, <1>3 DEF RowPosted
    <2> QED BY <2>1, <2>2, <2>3 DEF RowPosted
  <1>5. PICK e : e = FinalOf(world[row.event]) OBVIOUS
  <1>6. _grade_market(next, e) = _grade_market(row, e) BY <1>3, GradeReads
  <1>7. RowFits(next, world)
    <2>1. CASE row.state = "unresolved" /\ row.outcome = ""
      <3>1. next.state = "unresolved" /\ next.outcome = "" BY Zenon, <1>3, <2>1
      <3> QED BY <1>4, <3>1 DEF RowFits
    <2>2. CASE /\ IsFinal(world[row.event]) /\ row.state \in Graded
               /\ <<row.state, row.outcome>> = _grade_market(row, FinalOf(world[row.event]))
      <3>1. <<next.state, next.outcome>> = _grade_market(next, FinalOf(world[next.event]))
        BY Zenon, <1>3, <1>5, <1>6, <2>2
      <3>2. IsFinal(world[next.event]) /\ next.state \in Graded BY Zenon, <1>3, <2>2
      <3> QED BY <1>4, <3>1, <3>2 DEF RowFits
    <2> QED BY <2>1, <2>2 DEF RowFits
  <1>8. PickOf(next) = PickOf(row) BY <1>3 DEF PickOf
  <1> QED BY <1>3, <1>7, <1>8

\* The row after: without a price posted before the game it has no closing line, as before.
ClosedOn(next, row) ==
    /\ RowFits(next, scWorld) /\ PickOf(next) = PickOf(row)
    /\ next.event = row.event /\ next.book = row.book /\ next.odds = row.odds
    /\ next.at = row.at /\ next.start = row.start
    /\ next.state = row.state /\ next.outcome = row.outcome
    /\ next.closing # NoOdds =>
          /\ PostedBefore(row) # {}
          /\ \A m : ClosesAt(row, m) => next.closing = scRows[m].odds

LEMMA ClosingLine ==
    ASSUME SportsInv, NEW i \in 1..Len(scRows)
    PROVE  ClosedOn(WithClosingLine(scRows[i]), scRows[i])
  <1>1. PICK row : row = scRows[i] OBVIOUS
  <1>2. /\ SportsRowsFit(scRows, scWorld) /\ DOMAIN scRows = 1..Len(scRows) /\ ClosesFit(scRows, scClock)
    BY DEF SportsInv, SportsRowsFit, IsList
  <1>3. RowFits(row, scWorld) BY <1>1, <1>2 DEF SportsRowsFit
  <1>4. RecordFits(row) /\ row.at \in Int /\ row.at < row.start /\ row.start \in Nat
    <2>1. RecordFits(row) /\ row.at < row.start BY <1>3 DEF RowFits, RowPosted
    <2>2. row.start \in Nat BY <2>1, SportsCycleAssumption DEF RecordFits
    <2> QED BY <2>1, <2>2 DEF RecordFits
  <1>5. row.event \in Games BY <1>4 DEF RecordFits
  <1>6. ~(row.at >= row.start) BY <1>4
  <1>7. CASE PostedBefore(row) = {}
    <2>1. ClosingRow(row) = {} BY <1>5, <1>7, ClosingRowIs
    <2>2. WithClosingLine(row) = row BY <2>1 DEF WithClosingLine
    <2>3. row.closing = NoOdds
      <3> SUFFICES ASSUME row.closing # NoOdds PROVE FALSE
        OBVIOUS
      <3>1. PICK j \in 1..Len(scRows) :
                /\ PickOf(scRows[j]) = PickOf(row) /\ scRows[j].book = row.book
                /\ scRows[j].start <= scClock /\ scRows[j].at < scRows[j].start
        BY <1>1, <1>2 DEF ClosesFit
      <3>2. j \in PostedBefore(row) BY <1>2, <3>1 DEF PostedBefore
      <3> QED BY <1>7, <3>2
    <2> QED BY Zenon, <1>1, <1>3, <2>2, <2>3 DEF ClosedOn
  <1>8. CASE PostedBefore(row) # {}
    <2>1. PICK m : ClosesAt(row, m) BY <1>5, <1>8, ClosingRowIs
    <2>2. ClosingRow(row) = {m} /\ m \in 1..Len(scRows) BY <1>2, <2>1 DEF ClosesAt, PostedBefore
    <2>3. Max(ClosingRow(row)) = m
      <3>1. Len(scRows) \in Nat BY <1>2 DEF SportsRowsFit, IsList
      <3>2. {m} \in SUBSET (1..Len(scRows)) /\ {m} # {} BY <2>2
      <3>3. Max({m}) \in {m} BY <3>1, <3>2, GreatestNumber
      <3> QED BY <2>2, <3>3
    <2>4. PICK odds, clv : odds = scRows[m].odds /\ clv = closing_line_value(row.odds, odds) OBVIOUS
    <2>5. PICK next : next = WithClosingLine(row) OBVIOUS
    <2>6. next = [row EXCEPT !.closing = odds, !.clv = clv]
      <3>1. ClosingRow(row) # {} BY <2>2
      <3>2. scRows[Max(ClosingRow(row))].odds = odds BY <2>3, <2>4
      <3> QED BY Zenon, <1>6, <2>4, <2>5, <3>1, <3>2 DEF WithClosingLine
    <2>7. odds \in Int
      <3>1. RowFits(scRows[m], scWorld) BY <1>2, <2>2 DEF SportsRowsFit
      <3> QED BY <2>4, <3>1 DEF RowFits, RowPosted, RecordFits, OfferFits
    <2>8. /\ RowFits(next, scWorld) /\ PickOf(next) = PickOf(row)
          /\ next.event = row.event /\ next.book = row.book /\ next.odds = row.odds
          /\ next.at = row.at /\ next.start = row.start /\ next.closing = odds
          /\ next.state = row.state /\ next.outcome = row.outcome
      <3>1. ClosedAs(next, row, odds, clv) BY Zenon, <2>6 DEF ClosedAs
      <3> QED BY <1>3, <2>7, <3>1, RowClosed
    <2>9. ASSUME NEW n, ClosesAt(row, n) PROVE next.closing = scRows[n].odds
      <3>1. {n} = {m} BY Zenon, <2>2, <2>9 DEF ClosesAt
      <3>2. n = m BY <3>1
      <3> QED BY Zenon, <2>4, <2>8, <3>2
    <2> QED BY Zenon, <1>1, <1>8, <2>5, <2>8, <2>9 DEF ClosedOn
  <1> QED BY <1>7, <1>8

LEMMA ClosesFitAfter ==
    ASSUME SportsInv, NEW rows, IsList(rows), Len(rows) = Len(scRows),
           \A i \in 1..Len(scRows) : ClosedOn(rows[i], scRows[i])
    PROVE  ClosesFit(rows, scClock)
  <1>1. /\ SportsRowsFit(scRows, scWorld) /\ DOMAIN scRows = 1..Len(scRows) /\ Len(scRows) \in Nat
    BY DEF SportsInv, SportsRowsFit, IsList
  <1>2. \A i \in 1..Len(scRows) :
           /\ PickOf(rows[i]) = PickOf(scRows[i]) /\ rows[i].book = scRows[i].book
           /\ rows[i].odds = scRows[i].odds /\ rows[i].at = scRows[i].at
           /\ rows[i].start = scRows[i].start
           /\ rows[i].closing # NoOdds =>
                 /\ PostedBefore(scRows[i]) # {}
                 /\ \A m : ClosesAt(scRows[i], m) => rows[i].closing = scRows[m].odds
    BY Zenon DEF ClosedOn
  <1>3. \A i \in 1..Len(scRows) :
           /\ scRows[i].event \in Games /\ scRows[i].start = GameFacts[scRows[i].event].start
           /\ scRows[i].at < scRows[i].start
    <2> SUFFICES ASSUME NEW i \in 1..Len(scRows)
                 PROVE  /\ scRows[i].event \in Games
                        /\ scRows[i].start = GameFacts[scRows[i].event].start
                        /\ scRows[i].at < scRows[i].start
      OBVIOUS
    <2>1. RowFits(scRows[i], scWorld) BY <1>1, Zenon DEF SportsRowsFit
    <2>2. RowPosted(scRows[i]) BY <2>1, Zenon DEF RowFits
    <2> QED BY <2>2, Zenon DEF RowPosted, RecordFits
  <1> SUFFICES ASSUME NEW i \in 1..Len(scRows), rows[i].closing # NoOdds
               PROVE  /\ \E j \in 1..Len(scRows) :
                            /\ PickOf(rows[j]) = PickOf(rows[i]) /\ rows[j].book = rows[i].book
                            /\ rows[j].odds = rows[i].closing /\ rows[j].start <= scClock
                            /\ rows[i].at <= rows[j].at /\ rows[j].at < rows[j].start
                      /\ \A j \in 1..Len(scRows) :
                            /\ PickOf(rows[j]) = PickOf(rows[i]) /\ rows[j].book = rows[i].book
                            /\ rows[j].closing # NoOdds
                            => rows[j].closing = rows[i].closing
    BY DEF ClosesFit
  <1>4. PICK m : ClosesAt(scRows[i], m) BY <1>2, <1>3, ClosingRowIs
  <1>5. rows[i].closing = scRows[m].odds BY <1>2, <1>4
  <1>6. /\ m \in 1..Len(scRows)
        /\ PickOf(scRows[m]) = PickOf(scRows[i]) /\ scRows[m].book = scRows[i].book
        /\ scRows[m].start <= scClock /\ scRows[m].at < scRows[m].start
    BY <1>1, <1>4 DEF ClosesAt, PostedBefore
  <1>7. i \in PostedBefore(scRows[i])
    <2>1. scRows[m].event = scRows[i].event BY <1>6 DEF PickOf
    <2>2. scRows[m].start = scRows[i].start BY Zenon, <1>3, <1>6, <2>1
    <2>3. scRows[i].start <= scClock /\ scRows[i].at < scRows[i].start BY Zenon, <1>3, <1>6, <2>2
    <2> QED BY <1>1, <2>3 DEF PostedBefore
  <1>8. scRows[i].at <= scRows[m].at BY Zenon, <1>4, <1>7 DEF ClosesAt
  <1>9. /\ PickOf(rows[m]) = PickOf(rows[i]) /\ rows[m].book = rows[i].book
        /\ rows[m].odds = rows[i].closing /\ rows[m].start <= scClock
        /\ rows[i].at <= rows[m].at /\ rows[m].at < rows[m].start
    BY Zenon, <1>2, <1>5, <1>6, <1>8
  <1>10. ASSUME NEW j \in 1..Len(scRows), PickOf(rows[j]) = PickOf(rows[i]),
                rows[j].book = rows[i].book, rows[j].closing # NoOdds
         PROVE  rows[j].closing = rows[i].closing
    <2>1. PickOf(scRows[j]) = PickOf(scRows[i]) /\ scRows[j].book = scRows[i].book
      BY Zenon, <1>2, <1>10
    <2>2. PostedBefore(scRows[j]) = PostedBefore(scRows[i]) BY <2>1 DEF PostedBefore
    <2>3. ClosingRow(scRows[j]) = ClosingRow(scRows[i]) BY <2>1 DEF ClosingRow
    <2>4. ClosesAt(scRows[j], m) BY Zenon, <1>4, <2>2, <2>3 DEF ClosesAt
    <2>5. rows[j].closing = scRows[m].odds BY Zenon, <1>2, <1>10, <2>4
    <2> QED BY Zenon, <1>5, <2>5
  <1> QED BY Zenon, <1>6, <1>9, <1>10

LEMMA SportsClosesKeep ==
    ASSUME SportsInv, NEW fails \in BOOLEAN, capture_sports_closing_lines(fails)
    PROVE  SportsInv'
  <1>1. PICK run : run = [scRun EXCEPT !.pc = "reporting"] OBVIOUS
  <1>2. PICK rows : rows = IF fails THEN scRows
                           ELSE [i \in DOMAIN scRows |-> WithClosingLine(scRows[i])] OBVIOUS
  <1>3. /\ Collecting("closing") /\ scRows' = rows /\ scRun' = run
        /\ UNCHANGED <<scClock, scWorld, scRejected, scBatches, scReport, scMatch>>
    BY Zenon, <1>1, <1>2 DEF capture_sports_closing_lines
  <1>4. /\ RunTyped(scRun, scClock, scWorld, Len(scBatches)) /\ scRun.pc = "closing"
        /\ RunCovers(scRun, scClock, scWorld)
    BY <1>3, InProgress DEF RunFits
  <1>5. SportsRowsFit(scRows, scWorld) /\ Len(scRows) \in Nat /\ DOMAIN scRows = 1..Len(scRows)
        /\ IsList(scRows) /\ scRejected \in Nat /\ ClosesFit(scRows, scClock)
    BY DEF SportsInv, SportsRowsFit, IsList
  <1>6. /\ SportsRowsFit(rows, scWorld) /\ RowsGrow(scRows, rows) /\ ClosesFit(rows, scClock)
        /\ Len(rows) = Len(scRows)
    <2>1. CASE fails
      <3>1. rows = scRows BY <1>2, <2>1
      <3> QED BY <1>5, <3>1 DEF RowsGrow
    <2>2. CASE ~fails
      <3>1. rows = [i \in DOMAIN scRows |-> WithClosingLine(scRows[i])] BY <1>2, <2>2
      <3>2. IsList(rows) /\ Len(rows) = Len(scRows)
        <4>1. DOMAIN rows = DOMAIN scRows /\ rows = [i \in DOMAIN rows |-> rows[i]] BY Zenon, <3>1
        <4> QED BY <1>5, <4>1 DEF IsList
      <3>3. ASSUME NEW i \in 1..Len(scRows) PROVE ClosedOn(rows[i], scRows[i])
        <4>1. rows[i] = WithClosingLine(scRows[i]) BY Zenon, <1>5, <3>1
        <4> QED BY <4>1, ClosingLine
      <3>4. SportsRowsFit(rows, scWorld) BY <3>2, <3>3 DEF SportsRowsFit, ClosedOn
      <3>5. RowsGrow(scRows, rows) BY <1>5, <3>2, <3>3 DEF RowsGrow, ClosedOn
      <3>6. ClosesFit(rows, scClock) BY <3>2, <3>3, ClosesFitAfter
      <3> QED BY <3>2, <3>4, <3>5, <3>6
    <2> QED BY <2>1, <2>2
  <1>7. scRun = [f \in CycleFields |-> scRun[f]] /\ scRun.logged \in Nat /\ scRun.refused \in Nat
    BY <1>4 DEF RunTyped
  <1>8. PastCollecting(run, scRun) /\ run.pc = "reporting" /\ run.batch = scRun.batch
    BY <1>1, <1>7 DEF CycleFields, PastCollecting
  <1>9. RunFits(run, scClock, scWorld, rows, Len(scBatches))
    <2>1. Len(scBatches) \in Nat BY DEF SportsInv, BatchesFit, IsList
    <2>2. scRun.batch \in 1..Len(scBatches) BY <1>4, <2>1 DEF RunTyped
    <2>3. run.pc \in Stages BY <1>8 DEF Stages
    <2>4. RunTyped(run, scClock, scWorld, Len(scBatches)) BY <1>4, <1>8, <2>1, <2>2, <2>3, TypedOn
    <2>5. RunCovers(run, scClock, scWorld) BY <1>4, <1>8, CoversOn
    <2>6. RunCounts(run, rows) BY <1>8 DEF RunCounts
    <2>7. RunSettles(run, rows, scWorld) BY <1>8 DEF RunSettles
    <2> QED BY <2>4, <2>5, <2>6, <2>7 DEF RunFits
  <1>10. RowsClaimed(scBatches, Claimable(run, rows))
    <2>1. Claimable(run, rows) = Len(scRows) BY <1>5, <1>6, <1>8 DEF Claimable
    <2> QED BY <2>1, ClaimableIs
  <1>11. scRejected' \in Nat /\ scRejected <= scRejected' BY <1>3, <1>5
  <1> QED BY <1>3, <1>6, <1>9, <1>10, <1>11, RowsGoOn

-----------------------------------------------------------------------------
\* The report

\* Of the rows of one pick the first is counted.
FirstOfPicks(some, ids) ==
    /\ some \subseteq ids
    /\ \A i, j \in some : PickOf(scRows[i]) = PickOf(scRows[j]) => i = j
    /\ \A k \in ids : \E i \in some : PickOf(scRows[i]) = PickOf(scRows[k])

LEMMA DedupedIs ==
    ASSUME SportsInv, NEW ids, ids \subseteq 1..Len(scRows)
    PROVE  FirstOfPicks(_deduped_sports_rows(ids), ids)
  <1>1. PICK some : some = _deduped_sports_rows(ids) OBVIOUS
  <1>2. some = {i \in ids : \A j \in ids : PickOf(scRows[j]) = PickOf(scRows[i]) =>
                   scRows[i].time < scRows[j].time \/ (scRows[i].time = scRows[j].time /\ i <= j)}
    BY <1>1 DEF _deduped_sports_rows
  <1>3. SportsRowsFit(scRows, scWorld) /\ Len(scRows) \in Nat BY DEF SportsInv, SportsRowsFit, IsList
  <1>4. \A i \in ids : scRows[i].time \in Nat /\ i \in Nat
    <2>1. \A i \in 1..Len(scRows) : scRows[i].time \in Nat
      BY Zenon, <1>3 DEF SportsRowsFit, RowFits, RowPosted
    <2>2. \A i \in ids : i \in 1..Len(scRows) /\ i \in Nat BY <1>3
    <2> QED BY Zenon, <2>1, <2>2
  <1>5. some \subseteq ids BY Zenon, <1>2
  <1>6. ASSUME NEW i \in some, NEW j \in some, PickOf(scRows[i]) = PickOf(scRows[j]) PROVE i = j
    <2>1. /\ scRows[i].time < scRows[j].time \/ (scRows[i].time = scRows[j].time /\ i <= j)
          /\ scRows[j].time < scRows[i].time \/ (scRows[j].time = scRows[i].time /\ j <= i)
      BY Zenon, <1>2, <1>5, <1>6
    <2>2. /\ scRows[i].time \in Nat /\ scRows[j].time \in Nat /\ i \in Nat /\ j \in Nat
      BY Zenon, <1>4, <1>5
    <2> QED BY <2>1, <2>2
  <1>7. ASSUME NEW k \in ids PROVE \E i \in some : PickOf(scRows[i]) = PickOf(scRows[k])
    <2>1. PICK same : same = {i \in ids : PickOf(scRows[i]) = PickOf(scRows[k])} OBVIOUS
    <2>2. same # {} /\ same \subseteq ids BY <2>1
    <2>3. PICK times : times = {scRows[i].time : i \in same} OBVIOUS
    <2>4. times \in SUBSET Nat /\ times # {} BY <1>4, <2>2, <2>3
    <2>5. PICK t \in times : \A u \in times : t <= u BY <2>4, LeastNumber
    <2>6. PICK early : early = {i \in same : scRows[i].time = t} OBVIOUS
    <2>7. early \in SUBSET Nat /\ early # {} BY <1>4, <2>2, <2>3, <2>5, <2>6
    <2>8. PICK i \in early : \A j \in early : i <= j BY <2>7, LeastNumber
    <2>9. i \in ids /\ PickOf(scRows[i]) = PickOf(scRows[k]) /\ scRows[i].time = t
      BY Zenon, <2>1, <2>6, <2>8
    <2>10. ASSUME NEW j \in ids, PickOf(scRows[j]) = PickOf(scRows[i])
           PROVE  scRows[i].time < scRows[j].time \/ (scRows[i].time = scRows[j].time /\ i <= j)
      <3>1. j \in same BY Zenon, <2>1, <2>9, <2>10
      <3>2. t <= scRows[j].time BY <2>3, <2>5, <3>1
      <3>3. t \in Nat /\ scRows[j].time \in Nat BY <1>4, <2>4, <2>5
      <3>4. CASE scRows[j].time = t
        <4>1. i <= j BY Zenon, <2>6, <2>8, <3>1, <3>4
        <4> QED BY <2>9, <3>4, <4>1
      <3>5. CASE scRows[j].time # t BY <2>9, <3>2, <3>3, <3>5
      <3> QED BY <3>4, <3>5
    <2>11. i \in some BY Zenon, <1>2, <2>9, <2>10
    <2> QED BY <2>9, <2>11
  <1> QED BY Zenon, <1>1, <1>5, <1>6, <1>7 DEF FirstOfPicks

LEMMA FirstsCounted ==
    ASSUME SportsInv, NEW ids, ids \subseteq 1..Len(scRows),
           NEW some, FirstOfPicks(some, ids)
    PROVE  /\ IsFiniteSet(some) /\ Cardinality(some) = Cardinality(Picks(scRows, ids))
  <1>1. IsList(scRows) BY DEF SportsInv, SportsRowsFit
  <1>2. IsFiniteSet(ids) BY <1>1, PicksCounted
  <1>3. some \subseteq ids /\ IsFiniteSet(some) BY <1>2, FS_Subset DEF FirstOfPicks
  <1>4. PICK picks : picks = Picks(scRows, ids) OBVIOUS
  <1>5. PICK f : f = [i \in some |-> PickOf(scRows[i])] OBVIOUS
  <1>6. f \in [some -> picks] BY <1>3, <1>4, <1>5 DEF Picks
  <1>7. \A i, j \in some : f[i] = f[j] => i = j
    <2>1. \A i \in some : f[i] = PickOf(scRows[i]) BY Zenon, <1>5
    <2>2. \A i, j \in some : PickOf(scRows[i]) = PickOf(scRows[j]) => i = j BY DEF FirstOfPicks
    <2> SUFFICES ASSUME NEW i \in some, NEW j \in some, f[i] = f[j] PROVE i = j
      OBVIOUS
    <2>3. PickOf(scRows[i]) = PickOf(scRows[j]) BY Zenon, <2>1
    <2> QED BY Zenon, <2>2, <2>3
  <1>8. \A p \in picks : \E i \in some : f[i] = p
    <2> SUFFICES ASSUME NEW p \in picks PROVE \E i \in some : f[i] = p
      OBVIOUS
    <2>1. PICK k \in ids : p = PickOf(scRows[k]) BY <1>4 DEF Picks
    <2>2. PICK i \in some : PickOf(scRows[i]) = PickOf(scRows[k]) BY Zenon DEF FirstOfPicks
    <2>3. f[i] = p BY Zenon, <1>5, <2>1, <2>2
    <2> QED BY <2>3
  <1>9. f \in Bijection(some, picks)
    <2>1. f \in Injection(some, picks) BY <1>6, <1>7 DEF Injection, IsInjective
    <2>2. f \in Surjection(some, picks) BY Zenon, <1>6, <1>8 DEF Surjection
    <2> QED BY <2>1, <2>2 DEF Bijection
  <1>10. ExistsBijection(some, picks) BY <1>9 DEF ExistsBijection
  <1>11. Cardinality(picks) = Cardinality(some) BY <1>3, <1>10, FS_Bijection
  <1> QED BY <1>3, <1>4, <1>11

\* Bets of one pick are graded alike.
LEMMA PicksGradedAlike ==
    ASSUME SportsInv, NEW i \in OfState(scRows, Graded), NEW j \in OfState(scRows, Graded),
           PickOf(scRows[i]) = PickOf(scRows[j])
    PROVE  scRows[i].outcome = scRows[j].outcome
  <1>1. PICK a, b : a = scRows[i] /\ b = scRows[j] OBVIOUS
  <1>2. RowFits(a, scWorld) /\ RowFits(b, scWorld) /\ a.state \in Graded /\ b.state \in Graded
    BY <1>1 DEF SportsInv, SportsRowsFit, OfState
  <1>3. PickOf(a) = PickOf(b) BY <1>1
  <1>4. a.event = b.event /\ a.market = b.market /\ a.selection = b.selection /\ a.line = b.line
    BY <1>3 DEF PickOf
  <1>5. PICK e : e = FinalOf(scWorld[a.event]) OBVIOUS
  <1>6. _grade_market(a, e) = _grade_market(b, e) BY <1>4, GradeReads
  <1>7. "unresolved" \notin Graded BY DEF Graded
  <1>8. <<a.state, a.outcome>> = _grade_market(a, e) BY Zenon, <1>2, <1>5, <1>7 DEF RowFits
  <1>9. <<b.state, b.outcome>> = _grade_market(b, e) BY Zenon, <1>2, <1>4, <1>5, <1>7 DEF RowFits
  <1>10. <<a.state, a.outcome>> = <<b.state, b.outcome>> BY Zenon, <1>6, <1>8, <1>9
  <1>11. a.outcome = b.outcome BY <1>10
  <1> QED BY <1>1, <1>11

LEMMA OutcomeFirsts ==
    ASSUME SportsInv, NEW some, FirstOfPicks(some, OfState(scRows, Graded)), NEW outcome
    PROVE  FirstOfPicks({i \in some : scRows[i].outcome = outcome}, OfOutcome(scRows, outcome))
  <1>1. PICK of : of = {i \in some : scRows[i].outcome = outcome} OBVIOUS
  <1>2. some \subseteq OfState(scRows, Graded) BY DEF FirstOfPicks
  <1>3. of \subseteq OfOutcome(scRows, outcome) BY <1>1, <1>2 DEF OfOutcome
  <1>4. \A i, j \in of : PickOf(scRows[i]) = PickOf(scRows[j]) => i = j
    BY Zenon, <1>1 DEF FirstOfPicks
  <1>5. ASSUME NEW k \in OfOutcome(scRows, outcome)
        PROVE  \E i \in of : PickOf(scRows[i]) = PickOf(scRows[k])
    <2>1. k \in OfState(scRows, Graded) /\ scRows[k].outcome = outcome BY DEF OfOutcome
    <2>2. PICK i \in some : PickOf(scRows[i]) = PickOf(scRows[k]) BY Zenon, <2>1 DEF FirstOfPicks
    <2>3. i \in OfState(scRows, Graded) BY <1>2
    <2>4. scRows[i].outcome = outcome BY Zenon, <2>1, <2>2, <2>3, PicksGradedAlike
    <2> QED BY Zenon, <1>1, <2>2, <2>4
  <1> QED BY Zenon, <1>1, <1>3, <1>4, <1>5 DEF FirstOfPicks

\* What a report counts
Reports(report, rows, rejected) ==
    /\ report = [f \in DOMAIN NoTotals |-> report[f]]
    /\ report.total = Len(rows) /\ report.rejected = rejected
    /\ report.settled = Cardinality(OfState(rows, Graded))
    /\ report.unresolved = Cardinality(OfState(rows, {"unresolved"}))
    /\ report.exposures = Cardinality(Picks(rows, 1..Len(rows)))
    /\ report.deduped = Cardinality(Picks(rows, OfState(rows, Graded)))
    /\ report.wins = Cardinality(Picks(rows, OfOutcome(rows, "win")))
    /\ report.losses = Cardinality(Picks(rows, OfOutcome(rows, "loss")))
    /\ report.pushes = Cardinality(OfState(rows, {"push"}))
    /\ report.voids = Cardinality(OfState(rows, {"void"}))

LEMMA ReportIs == ASSUME SportsInv PROVE Reports(build_sports_report, scRows, scRejected)
  <1>1. PICK some : some = _deduped_sports_rows(OfState(scRows, Graded)) OBVIOUS
  <1>2. DOMAIN scRows = 1..Len(scRows) BY DEF SportsInv, SportsRowsFit, IsList
  <1>3. OfState(scRows, Graded) \subseteq 1..Len(scRows) BY DEF OfState
  <1>4. FirstOfPicks(some, OfState(scRows, Graded)) BY <1>1, <1>3, DedupedIs
  <1>5. Cardinality(some) = Cardinality(Picks(scRows, OfState(scRows, Graded)))
    BY <1>3, <1>4, FirstsCounted
  <1>6. Cardinality(_deduped_sports_rows(1..Len(scRows))) = Cardinality(Picks(scRows, 1..Len(scRows)))
    <2>1. FirstOfPicks(_deduped_sports_rows(1..Len(scRows)), 1..Len(scRows)) BY DedupedIs
    <2> QED BY <2>1, FirstsCounted
  <1>7. ASSUME NEW outcome
        PROVE  Cardinality({i \in some : scRows[i].outcome = outcome})
                   = Cardinality(Picks(scRows, OfOutcome(scRows, outcome)))
    <2>1. PICK of : of = {i \in some : scRows[i].outcome = outcome} OBVIOUS
    <2>2. FirstOfPicks(of, OfOutcome(scRows, outcome)) BY <1>4, <2>1, OutcomeFirsts
    <2>3. OfOutcome(scRows, outcome) \subseteq 1..Len(scRows) BY <1>3 DEF OfOutcome
    <2>4. Cardinality(of) = Cardinality(Picks(scRows, OfOutcome(scRows, outcome)))
      BY <2>2, <2>3, FirstsCounted
    <2> QED BY <2>1, <2>4
  <1>8. PICK report : report = build_sports_report OBVIOUS
  <1>9. report = [total |-> Len(scRows), rejected |-> scRejected,
         settled |-> Cardinality(OfState(scRows, Graded)),
         unresolved |-> Cardinality(OfState(scRows, {"unresolved"})),
         exposures |-> Cardinality(_deduped_sports_rows(1..Len(scRows))),
         deduped |-> Cardinality(some),
         wins |-> Cardinality({i \in some : scRows[i].outcome = "win"}),
         losses |-> Cardinality({i \in some : scRows[i].outcome = "loss"}),
         pushes |-> Cardinality(OfState(scRows, {"push"})),
         voids |-> Cardinality(OfState(scRows, {"void"}))]
    BY Zenon, <1>1, <1>2, <1>8 DEF build_sports_report, OfState
  <1>10. DOMAIN NoTotals = {"total", "rejected", "settled", "unresolved", "exposures", "deduped",
                            "wins", "losses", "pushes", "voids"}
    BY DEF NoTotals
  <1>11. /\ report.total = Len(scRows) /\ report.rejected = scRejected
         /\ report.settled = Cardinality(OfState(scRows, Graded))
         /\ report.unresolved = Cardinality(OfState(scRows, {"unresolved"}))
         /\ report.exposures = Cardinality(_deduped_sports_rows(1..Len(scRows)))
         /\ report.deduped = Cardinality(some)
         /\ report.wins = Cardinality({i \in some : scRows[i].outcome = "win"})
         /\ report.losses = Cardinality({i \in some : scRows[i].outcome = "loss"})
         /\ report.pushes = Cardinality(OfState(scRows, {"push"}))
         /\ report.voids = Cardinality(OfState(scRows, {"void"}))
    BY Zenon, <1>9
  <1>12. report = [f \in DOMAIN NoTotals |-> report[f]]
    <2>1. \A a, b, c, d, e, f, g, h, i, j :
             [total |-> a, rejected |-> b, settled |-> c, unresolved |-> d, exposures |-> e,
              deduped |-> f, wins |-> g, losses |-> h, pushes |-> i, voids |-> j]
             = [x \in DOMAIN NoTotals |->
                  [total |-> a, rejected |-> b, settled |-> c, unresolved |-> d, exposures |-> e,
                   deduped |-> f, wins |-> g, losses |-> h, pushes |-> i, voids |-> j][x]]
      BY <1>10
    <2> QED BY Zenon, <1>9, <2>1
  <1> QED BY Zenon, <1>5, <1>6, <1>7, <1>8, <1>11, <1>12 DEF Reports

\* A report that counts the log says no more than the log does.
LEMMA CountedFits ==
    ASSUME NEW report, NEW rows, IsList(rows), NEW rejected \in Nat, Reports(report, rows, rejected)
    PROVE  /\ TotalsFit(report, rows, rejected)
           /\ \A f \in DOMAIN NoTotals : report[f] \in Nat
  <1>1. Len(rows) \in Nat BY DEF IsList
  <1>2. /\ OfState(rows, Graded) \subseteq 1..Len(rows)
        /\ OfState(rows, {"unresolved"}) \subseteq 1..Len(rows)
        /\ OfState(rows, {"push"}) \subseteq 1..Len(rows)
        /\ OfState(rows, {"void"}) \subseteq 1..Len(rows)
    BY DEF OfState
  <1>3. /\ OfOutcome(rows, "win") \subseteq 1..Len(rows)
        /\ OfOutcome(rows, "loss") \subseteq 1..Len(rows)
    BY <1>2 DEF OfOutcome
  <1>4. 1..Len(rows) \subseteq 1..Len(rows) OBVIOUS
  <1>5. /\ report.settled \in Nat /\ report.unresolved \in Nat /\ report.pushes \in Nat
        /\ report.voids \in Nat
    BY <1>2, PicksCounted DEF Reports
  <1>6. /\ report.exposures \in Nat /\ report.deduped \in Nat
        /\ report.wins \in Nat /\ report.losses \in Nat
    BY <1>2, <1>3, <1>4, PicksCounted DEF Reports
  <1>7. report.total \in Nat /\ report.rejected \in Nat BY <1>1 DEF Reports
  <1>8. \A f \in DOMAIN NoTotals : report[f] \in Nat
    <2>1. DOMAIN NoTotals = {"total", "rejected", "settled", "unresolved", "exposures", "deduped",
                             "wins", "losses", "pushes", "voids"}
      BY DEF NoTotals
    <2> QED BY <1>5, <1>6, <1>7, <2>1
  <1>9. \A m, n : m \in Nat /\ m = n => m <= n OBVIOUS
  <1> QED BY Zenon, <1>5, <1>6, <1>7, <1>8, <1>9 DEF Reports, TotalsFit

LEMMA WriteReportKeeps ==
    ASSUME SportsInv, WriteReport
    PROVE  SportsInv' /\ Reports(scReport', scRows, scRejected)
  <1>1. /\ scReport' = build_sports_report /\ scRun' = NoSportsCycle
        /\ UNCHANGED <<scClock, scWorld, scRows, scRejected, scBatches, scMatch>>
    BY DEF WriteReport
  <1>2. Reports(scReport', scRows, scRejected) BY <1>1, ReportIs
  <1>3. IsList(scRows) /\ scRejected \in Nat BY DEF SportsInv, SportsRowsFit
  <1>4. TotalsFit(scReport', scRows, scRejected)
    <2>1. PICK report : report = scReport' OBVIOUS
    <2>2. TotalsFit(report, scRows, scRejected) BY <1>2, <1>3, <2>1, CountedFits
    <2> QED BY <2>1, <2>2
  <1>5. RowsClaimed(scBatches, Claimable(scRun', scRows))
    <2>1. scRun'.pc # "finishing" BY <1>1 DEF NoSportsCycle
    <2>2. Claimable(scRun', scRows) = Len(scRows) BY <2>1, ClaimableIs DEF Claimable
    <2> QED BY <2>2, ClaimableIs
  <1>6. FixturesKeepTheirTeams' BY <1>1 DEF SportsInv, FixturesKeepTheirTeams
  <1>7. /\ scClock' = scClock /\ scWorld' = scWorld /\ scRows' = scRows
        /\ scRejected' = scRejected /\ scBatches' = scBatches
    BY <1>1
  <1>8. /\ scClock' \in Nat /\ scClock' <= MaxScClock /\ WorldFits(scWorld', scClock')
        /\ SportsRowsFit(scRows', scWorld') /\ scRejected' \in Nat
        /\ ClosesFit(scRows', scClock') /\ BatchesFit(scBatches')
    BY <1>7 DEF SportsInv
  <1>9. /\ TotalsFit(scReport', scRows', scRejected')
        /\ RowsClaimed(scBatches', Claimable(scRun', scRows'))
    BY <1>4, <1>5, <1>7
  <1>10. SportsInv' BY <1>1, <1>6, <1>8, <1>9 DEF SportsInv
  <1> QED BY <1>2, <1>10

LEMMA CountsAgree ==
    ASSUME SportsInv, NEW report, Reports(report, scRows, scRejected)
    PROVE  /\ report.settled + report.unresolved = report.total
           /\ report.wins + report.losses <= report.deduped
           /\ report.deduped <= report.exposures
  <1>1. IsList(scRows) /\ Len(scRows) \in Nat /\ SportsRowsFit(scRows, scWorld)
    BY DEF SportsInv, SportsRowsFit, IsList
  <1>2. PICK graded, open, wins, losses :
           /\ graded = OfState(scRows, Graded) /\ open = OfState(scRows, {"unresolved"})
           /\ wins = Picks(scRows, OfOutcome(scRows, "win"))
           /\ losses = Picks(scRows, OfOutcome(scRows, "loss"))
    OBVIOUS
  <1>3. graded \subseteq 1..Len(scRows) BY <1>2 DEF OfState
  <1>4. report.settled + report.unresolved = report.total
    <2>1. 1..Len(scRows) = graded \cup open
      <3>1. \A i \in 1..Len(scRows) : scRows[i].state \in Graded \/ scRows[i].state = "unresolved"
        BY Zenon, <1>1 DEF SportsRowsFit, RowFits
      <3> QED BY <1>2, <3>1 DEF OfState
    <2>2. graded \cap open = {} BY <1>2 DEF OfState, Graded
    <2>3. IsFiniteSet(1..Len(scRows)) /\ Cardinality(1..Len(scRows)) = Len(scRows)
      <3>1. 1 \in Int /\ Len(scRows) \in Int BY <1>1
      <3>2. /\ IsFiniteSet(1..Len(scRows))
            /\ Cardinality(1..Len(scRows)) = IF 1 > Len(scRows) THEN 0 ELSE Len(scRows) - 1 + 1
        BY <3>1, FS_Interval
      <3>3. (IF 1 > Len(scRows) THEN 0 ELSE Len(scRows) - 1 + 1) = Len(scRows) BY <1>1
      <3> QED BY <3>2, <3>3
    <2>4. Cardinality(1..Len(scRows)) = Cardinality(graded) + Cardinality(open)
      BY <2>1, <2>2, <2>3, TwoParts
    <2> QED BY Zenon, <1>2, <2>3, <2>4 DEF Reports
  <1>5. IsFiniteSet(Picks(scRows, graded)) BY <1>1, <1>3, PicksCounted
  <1>6. report.wins + report.losses <= report.deduped
    <2>1. wins \cap losses = {}
      <3> SUFFICES ASSUME NEW p \in wins, p \in losses PROVE FALSE
        OBVIOUS
      <3>1. PICK i \in OfOutcome(scRows, "win") : p = PickOf(scRows[i]) BY <1>2 DEF Picks
      <3>2. PICK j \in OfOutcome(scRows, "loss") : p = PickOf(scRows[j]) BY <1>2 DEF Picks
      <3>3. /\ i \in OfState(scRows, Graded) /\ scRows[i].outcome = "win"
            /\ j \in OfState(scRows, Graded) /\ scRows[j].outcome = "loss"
        BY DEF OfOutcome
      <3>4. PickOf(scRows[i]) = PickOf(scRows[j]) BY <3>1, <3>2
      <3>5. scRows[i].outcome = scRows[j].outcome BY Zenon, <3>3, <3>4, PicksGradedAlike
      <3> QED BY <3>3, <3>5
    <2>2. wins \cup losses \subseteq Picks(scRows, graded) BY <1>2 DEF Picks, OfOutcome
    <2>3. /\ IsFiniteSet(wins \cup losses)
          /\ Cardinality(wins \cup losses) <= Cardinality(Picks(scRows, graded))
      BY <1>5, <2>2, FS_Subset
    <2>4. Cardinality(wins \cup losses) = Cardinality(wins) + Cardinality(losses)
      BY <2>1, <2>3, TwoParts
    <2>5. Cardinality(wins) + Cardinality(losses) <= Cardinality(Picks(scRows, graded))
      BY Zenon, <2>3, <2>4
    <2> QED BY Zenon, <1>2, <2>5 DEF Reports
  <1>7. report.deduped <= report.exposures
    <2>1. Picks(scRows, graded) \subseteq Picks(scRows, 1..Len(scRows)) BY <1>3 DEF Picks
    <2>2. IsFiniteSet(Picks(scRows, 1..Len(scRows))) BY <1>1, PicksCounted
    <2>3. Cardinality(Picks(scRows, graded)) <= Cardinality(Picks(scRows, 1..Len(scRows)))
      BY <2>1, <2>2, FS_Subset
    <2> QED BY Zenon, <1>2, <2>3 DEF Reports
  <1> QED BY <1>4, <1>6, <1>7

\* What was reported is a part of what is reported next.
LEMMA TotalsGrow ==
    ASSUME NEW old, NEW report, NEW rows, NEW rejected,
           TotalsFit(old, rows, rejected), Reports(report, rows, rejected)
    PROVE  \A field \in DOMAIN NoTotals \ {"unresolved"} : old[field] <= report[field]
  <1>1. DOMAIN NoTotals \ {"unresolved"} =
            {"total", "rejected", "settled", "exposures", "deduped", "wins", "losses", "pushes",
             "voids"}
    BY DEF NoTotals
  <1>2. /\ old.total <= report.total /\ old.rejected <= report.rejected
        /\ old.settled <= report.settled /\ old.exposures <= report.exposures
        /\ old.deduped <= report.deduped /\ old.wins <= report.wins
        /\ old.losses <= report.losses /\ old.pushes <= report.pushes
        /\ old.voids <= report.voids
    BY Zenon DEF TotalsFit, Reports
  <1> QED BY <1>1, <1>2

LEMMA ReportStands ==
    ASSUME SportsInv, scNext \/ UNCHANGED scVars
    PROVE  ReportNeverTakesBack
  <1> SUFFICES ASSUME scReport' # scReport PROVE ReportNeverTakesBack
    BY DEF ReportNeverTakesBack
  <1>1. WriteReport
    <2>1. SportsTick => UNCHANGED scReport BY DEF SportsTick
    <2>2. \A g \in Games, e \in Endings : GameEnds(g, e) => UNCHANGED scReport BY DEF GameEnds
    <2>3. \A r \in FixtureRows : MatchFixture(r) => UNCHANGED scReport BY DEF MatchFixture
    <2>4. \A s \in CycleSettings, retry \in BOOLEAN : StartCycle(s, retry) => UNCHANGED scReport
      BY DEF StartCycle
    <2>5. \A run : Continue(run) => UNCHANGED scReport BY DEF Continue
    <2>6. \A page \in OfficialPages, n \in 0..1, shape \in Shapes :
             FetchOfficialOdds(page, n, shape) => UNCHANGED scReport
      BY Zenon, <2>5 DEF FetchOfficialOdds
    <2>7. \A p \in Postings, n \in 0..2, shape \in Shapes :
             (FetchScoreboard(p, n, shape) \/ FetchSummary(p, n, shape)) => UNCHANGED scReport
      <3> SUFFICES ASSUME NEW p, NEW n, NEW shape,
                          FetchScoreboard(p, n, shape) \/ FetchSummary(p, n, shape)
                   PROVE  UNCHANGED scReport
        OBVIOUS
      <3>1. CASE FetchScoreboard(p, n, shape) BY Zenon, <2>5, <3>1 DEF FetchScoreboard
      <3>2. CASE FetchSummary(p, n, shape) BY Zenon, <2>5, <3>2 DEF FetchSummary
      <3> QED BY <3>1, <3>2
    <2>8. \A n \in 0..2, shape \in Shapes : FetchPrior(n, shape) => UNCHANGED scReport
      BY Zenon, <2>5 DEF FetchPrior
    <2>9. NoSource => UNCHANGED scReport BY <2>5 DEF NoSource
    <2>10. /\ _start_sports_collection_ledger => UNCHANGED scReport
           /\ log_sports_predictions => UNCHANGED scReport
           /\ LoggingFails => UNCHANGED scReport
           /\ _finish_sports_collection_ledger => UNCHANGED scReport
           /\ settle_sports_predictions => UNCHANGED scReport
           /\ CycleDies => UNCHANGED scReport
      BY Zenon DEF _start_sports_collection_ledger, log_sports_predictions, LoggingFails,
             _finish_sports_collection_ledger, settle_sports_predictions, CycleDies
    <2>11. \A fails \in BOOLEAN : capture_sports_closing_lines(fails) => UNCHANGED scReport
      BY DEF capture_sports_closing_lines
    <2>12. UNCHANGED scVars => UNCHANGED scReport BY DEF scVars
    <2> QED BY Zenon, <2>1, <2>2, <2>3, <2>4, <2>6, <2>7, <2>8, <2>9, <2>10, <2>11, <2>12 DEF scNext
  <1>2. Reports(scReport', scRows, scRejected) BY <1>1, WriteReportKeeps
  <1>3. PICK old, report : old = scReport /\ report = scReport' OBVIOUS
  <1>4. /\ report.settled + report.unresolved = report.total
        /\ report.wins + report.losses <= report.deduped
        /\ report.deduped <= report.exposures
    BY <1>2, <1>3, CountsAgree
  <1>5. /\ \A f \in DOMAIN NoTotals : old[f] \in Nat
        /\ \A f \in DOMAIN NoTotals : report[f] \in Nat
        /\ \A field \in DOMAIN NoTotals \ {"unresolved"} : old[field] <= report[field]
    <2>1. TotalsFit(old, scRows, scRejected) /\ IsList(scRows) /\ scRejected \in Nat
      BY <1>3 DEF SportsInv, SportsRowsFit
    <2>2. Reports(report, scRows, scRejected) BY <1>2, <1>3
    <2>3. \A f \in DOMAIN NoTotals : report[f] \in Nat BY <2>1, <2>2, CountedFits
    <2>4. \A f \in DOMAIN NoTotals : old[f] \in Nat BY Zenon, <2>1 DEF TotalsFit
    <2> QED BY <2>1, <2>2, <2>3, <2>4, TotalsGrow
  <1>6. \A field \in DOMAIN NoTotals \ {"unresolved"} : report[field] >= old[field]
    <2>1. \A m, n \in Nat : m <= n => n >= m OBVIOUS
    <2> QED BY Zenon, <1>5, <2>1
  <1> QED BY Zenon, <1>3, <1>4, <1>6 DEF ReportNeverTakesBack

LEMMA SportsKeeps == ASSUME SportsInv, scNext \/ UNCHANGED scVars PROVE SportsInv'
  <1>1. ASSUME SportsTick PROVE SportsInv' BY <1>1, SportsTickKeeps
  <1>2. ASSUME NEW g \in Games, NEW e \in Endings, GameEnds(g, e) PROVE SportsInv'
    BY <1>2, GameEndsKeeps
  <1>3. ASSUME NEW r \in FixtureRows, MatchFixture(r) PROVE SportsInv' BY <1>3, MatchFixtureKeeps
  <1>4. ASSUME NEW s \in CycleSettings, NEW retry \in BOOLEAN, StartCycle(s, retry) PROVE SportsInv'
    BY <1>4, StartCycleKeeps
  <1>5. ASSUME NEW page \in OfficialPages, NEW n \in 0..1, NEW shape \in Shapes,
               FetchOfficialOdds(page, n, shape)
        PROVE  SportsInv'
    BY <1>5, FetchOfficialOddsKeeps
  <1>6. ASSUME NEW p \in Postings, NEW n \in 0..2, NEW shape \in Shapes, FetchScoreboard(p, n, shape)
        PROVE  SportsInv'
    BY <1>6, FetchScoreboardKeeps
  <1>7. ASSUME NEW p \in Postings, NEW n \in 0..2, NEW shape \in Shapes, FetchSummary(p, n, shape)
        PROVE  SportsInv'
    BY <1>7, FetchSummaryKeeps
  <1>8. ASSUME NEW n \in 0..2, NEW shape \in Shapes, FetchPrior(n, shape) PROVE SportsInv'
    BY <1>8, FetchPriorKeeps
  <1>9. ASSUME NEW fails \in BOOLEAN, capture_sports_closing_lines(fails) PROVE SportsInv'
    BY <1>9, SportsClosesKeep
  <1>10. ASSUME \/ NoSource \/ _start_sports_collection_ledger \/ log_sports_predictions
                \/ LoggingFails \/ _finish_sports_collection_ledger \/ settle_sports_predictions
                \/ WriteReport \/ CycleDies
         PROVE  SportsInv'
    BY <1>10, NoSourceKeeps, StartLedgerKeeps, SportsLogKeeps, LoggingFailsKeeps,
       FinishLedgerKeeps, SportsSettleKeeps, WriteReportKeeps, SportsDeathKeeps
  <1>11. ASSUME UNCHANGED scVars PROVE SportsInv'
    <2>1. /\ scClock' = scClock /\ scWorld' = scWorld /\ scRows' = scRows /\ scRejected' = scRejected
          /\ scBatches' = scBatches /\ scRun' = scRun /\ scReport' = scReport /\ scMatch' = scMatch
      BY <1>11 DEF scVars
    <2>2. FixturesKeepTheirTeams' BY <2>1 DEF SportsInv, FixturesKeepTheirTeams
    <2>3. /\ scClock' \in Nat /\ scClock' <= MaxScClock /\ WorldFits(scWorld', scClock')
          /\ SportsRowsFit(scRows', scWorld') /\ scRejected' \in Nat
          /\ BatchesFit(scBatches') /\ RowsClaimed(scBatches', Claimable(scRun', scRows'))
          /\ ClosesFit(scRows', scClock') /\ TotalsFit(scReport', scRows', scRejected')
      BY <2>1 DEF SportsInv
    <2>4. scRun' = NoSportsCycle \/ RunFits(scRun', scClock', scWorld', scRows', Len(scBatches'))
      BY <2>1 DEF SportsInv
    <2> QED BY <2>2, <2>3, <2>4 DEF SportsInv
  <1> QED BY Zenon, <1>1, <1>2, <1>3, <1>4, <1>5, <1>6, <1>7, <1>8, <1>9, <1>10, <1>11 DEF scNext

-----------------------------------------------------------------------------
\* What follows

LEMMA SportsTypes == ASSUME SportsInv PROVE scTypeOK
  <1>1. SportsRowsFit(scRows, scWorld) /\ DOMAIN scRows = 1..Len(scRows)
    BY DEF SportsInv, SportsRowsFit, IsList
  <1>2. scClock \in 0..MaxScClock /\ scRejected \in Nat BY DEF SportsInv
  <1>3. \A g \in Games : scWorld[g] = NoEnding \/ [scWorld[g] EXCEPT !.since = 0] \in Endings
    BY Zenon DEF SportsInv, WorldFits, EndingFits
  <1>4. ASSUME NEW i \in DOMAIN scRows
        PROVE  /\ scRows[i].state \in Graded \cup {"unresolved"}
               /\ scRows[i].outcome \in {"", "win", "loss", "push", "postponed", "canceled"}
               /\ scRows[i].confidence \in 500..690
    <2>1. PICK row : row = scRows[i] OBVIOUS
    <2>2. RowFits(row, scWorld) BY <1>1, <2>1 DEF SportsRowsFit
    <2>3. row.confidence \in 500..690 BY Zenon, <2>2 DEF RowFits, RowPosted
    <2>4. CASE row.state = "unresolved" /\ row.outcome = "" BY <2>1, <2>3, <2>4
    <2>5. CASE /\ IsFinal(scWorld[row.event]) /\ row.state \in Graded
               /\ <<row.state, row.outcome>> = _grade_market(row, FinalOf(scWorld[row.event]))
      <3>1. PICK e : e = FinalOf(scWorld[row.event]) OBVIOUS
      <3>2. OfferFits(row) /\ row.event \in Games
        BY Zenon, <2>2 DEF RowFits, RowPosted, RecordFits
      <3>3. ScoresFit(scWorld[row.event]) BY Zenon, <3>2 DEF SportsInv, WorldFits, EndingFits
      <3>4. ScoresFit(e) BY <3>1, <3>3 DEF FinalOf, ScoresFit
      <3>5. <<row.state, row.outcome>> \in Grades
        <4>1. _grade_market(row, e) \in Grades BY <3>2, <3>4, GradeIs
        <4> QED BY Zenon, <2>5, <3>1, <4>1
      <3>6. row.outcome \in {"", "win", "loss", "push", "postponed", "canceled"}
        BY <3>5 DEF Grades
      <3>7. row.state \in Graded \cup {"unresolved"} BY <2>5
      <3>8. /\ row.state = scRows[i].state /\ row.outcome = scRows[i].outcome
            /\ row.confidence = scRows[i].confidence
        BY <2>1, Zenon
      <3>9. scRows[i].state \in Graded \cup {"unresolved"} BY <3>7, <3>8, Zenon
      <3>10. scRows[i].outcome \in {"", "win", "loss", "push", "postponed", "canceled"}
        BY <3>6, <3>8, Zenon
      <3>11. scRows[i].confidence \in 500..690 BY <2>3, <3>8, Zenon
      <3> QED BY <3>9, <3>10, <3>11
    <2> QED BY <2>2, <2>4, <2>5 DEF RowFits
  <1>5. \A i \in DOMAIN scBatches :
           scBatches[i].status \in {"started", "completed", "completed_with_rejections",
                                    "failed", "blocked"}
    BY Zenon DEF SportsInv, BatchesFit, BatchFits, IsList
  <1>6. scRun # NoSportsCycle =>
           /\ scRun.batch \in 0..Len(scBatches)
           /\ scRun.pc \in {"logging", "finishing", "settling", "closing", "reporting"} => scRun.batch > 0
    BY Zenon DEF SportsInv, RunFits, RunTyped
  <1> QED BY Zenon, <1>2, <1>3, <1>4, <1>5, <1>6 DEF scTypeOK

LEMMA GradedByFinal ==
    ASSUME SportsInv, NEW i \in 1..Len(scRows), scRows[i].state \in Graded
    PROVE  /\ OfferFits(scRows[i]) /\ ScoresFit(FinalOf(scWorld[scRows[i].event]))
           /\ scRows[i].state = _grade_market(scRows[i], FinalOf(scWorld[scRows[i].event]))[1]
           /\ scRows[i].outcome = _grade_market(scRows[i], FinalOf(scWorld[scRows[i].event]))[2]
  <1>1. PICK row : row = scRows[i] OBVIOUS
  <1>2. RowFits(row, scWorld) BY <1>1 DEF SportsInv, SportsRowsFit
  <1>3. PICK e : e = FinalOf(scWorld[row.event]) OBVIOUS
  <1>4. OfferFits(row) /\ row.event \in Games BY Zenon, <1>2 DEF RowFits, RowPosted, RecordFits
  <1>5. ScoresFit(scWorld[row.event]) BY Zenon, <1>4 DEF SportsInv, WorldFits, EndingFits
  <1>6. ScoresFit(e) BY <1>3, <1>5 DEF FinalOf, ScoresFit
  <1>7. "unresolved" \notin Graded BY DEF Graded
  <1>8. <<row.state, row.outcome>> = _grade_market(row, e) BY Zenon, <1>1, <1>2, <1>3, <1>7 DEF RowFits
  <1>9. row.state = _grade_market(row, e)[1] /\ row.outcome = _grade_market(row, e)[2] BY <1>8
  <1> QED BY Zenon, <1>1, <1>3, <1>4, <1>6, <1>9

LEMMA SportsGradesAgree == ASSUME SportsInv PROVE GradesAgree
  <1>1. DOMAIN scRows = 1..Len(scRows) BY DEF SportsInv, SportsRowsFit, IsList
  <1>2. ASSUME NEW i \in DOMAIN scRows, NEW j \in DOMAIN scRows,
               scRows[i].event = scRows[j].event, scRows[i].state \in Graded, scRows[j].state \in Graded
        PROVE  /\ (scRows[i].state = "void") = (scRows[j].state = "void")
               /\ Opposed(scRows[i], scRows[j]) /\ scRows[i].state # "void" =>
                     {scRows[i].outcome, scRows[j].outcome} \in {{"win", "loss"}, {"push"}}
    <2>1. PICK a, b, e : /\ a = scRows[i] /\ b = scRows[j] /\ e = FinalOf(scWorld[a.event]) OBVIOUS
    <2>2. /\ OfferFits(a) /\ ScoresFit(e)
          /\ a.state = _grade_market(a, e)[1] /\ a.outcome = _grade_market(a, e)[2]
      BY Zenon, <1>1, <1>2, <2>1, GradedByFinal
    <2>3. /\ OfferFits(b)
          /\ b.state = _grade_market(b, e)[1] /\ b.outcome = _grade_market(b, e)[2]
      BY Zenon, <1>1, <1>2, <2>1, GradedByFinal
    <2>4. _grade_market(a, e)[1] \in Graded /\ _grade_market(b, e)[1] \in Graded
      BY Zenon, <1>2, <2>1, <2>2, <2>3
    <2>5. /\ (_grade_market(a, e)[1] = "void") = (_grade_market(b, e)[1] = "void")
          /\ Opposed(a, b) /\ _grade_market(a, e)[1] # "void" =>
                {_grade_market(a, e)[2], _grade_market(b, e)[2]} \in {{"win", "loss"}, {"push"}}
      BY <2>2, <2>3, <2>4, GradesOpposed
    <2>6. /\ (a.state = "void") = (b.state = "void")
          /\ Opposed(a, b) /\ a.state # "void" =>
                {a.outcome, b.outcome} \in {{"win", "loss"}, {"push"}}
      BY Zenon, <2>2, <2>3, <2>5
    <2> QED BY Zenon, <2>1, <2>6
  <1>3. \A x, y, S : {x, y} \subseteq S => x \in S /\ y \in S OBVIOUS
  <1> QED BY Zenon, <1>2, <1>3 DEF GradesAgree, Opposed

LEMMA SportsCaughtUp == ASSUME SportsInv PROVE CaughtUp
  <1> SUFFICES ASSUME scRun.pc = "closing", scRun.payload.mode = "public", scRun.caught,
                      NEW i \in DOMAIN scRows, scRows[i].state = "unresolved",
                      DayOf(scRows[i].start) \in
                          (DayOf(scRun.payload.at) - scRun.settings.lookback)..DayOf(scRun.began),
                      IsFinal(scWorld[scRows[i].event]), scWorld[scRows[i].event].since < scRun.began,
                      NoScore \notin {scWorld[scRows[i].event].home, scWorld[scRows[i].event].away}
               PROVE  FALSE
    BY DEF CaughtUp
  <1>1. scRun # NoSportsCycle BY DEF NoSportsCycle
  <1>2. RunCovers(scRun, scClock, scWorld) /\ RunSettles(scRun, scRows, scWorld)
    BY <1>1 DEF SportsInv, RunFits
  <1>3. i \in 1..Len(scRows) /\ RowFits(scRows[i], scWorld)
    BY DEF SportsInv, SportsRowsFit, IsList
  <1>4. PICK g : g = scRows[i].event OBVIOUS
  <1>5. g \in Games /\ scRows[i].start = GameFacts[g].start
    BY Zenon, <1>3, <1>4 DEF RowFits, RowPosted, RecordFits
  <1>6. Covered(scRun.payload.finals, scWorld, DayOf(scRun.payload.at) - scRun.settings.lookback,
                DayOf(scRun.began), scRun.began)
    BY <1>2 DEF RunCovers
  <1>7. /\ DayOf(scRun.payload.at) - scRun.settings.lookback <= DayOf(scRows[i].start)
        /\ DayOf(scRows[i].start) <= DayOf(scRun.began)
    OBVIOUS
  <1>8. g \in DOMAIN scRun.payload.finals BY Zenon, <1>4, <1>5, <1>6, <1>7 DEF Covered
  <1>9. scRows[i].state # "unresolved" BY Zenon, <1>2, <1>3, <1>4, <1>8 DEF RunSettles
  <1> QED BY <1>9

LEMMA SportsClosesAreOwn == ASSUME SportsInv PROVE ClosesAreTheBooksOwn
  <1>1. DOMAIN scRows = 1..Len(scRows) /\ ClosesFit(scRows, scClock) /\ SportsRowsFit(scRows, scWorld)
    BY DEF SportsInv, SportsRowsFit, IsList
  <1>2. ASSUME NEW i \in 1..Len(scRows), NEW j \in 1..Len(scRows), scRows[i].at <= scRows[j].at,
               scRows[j].at < scRows[j].start
        PROVE  scRows[j].at \in scRows[i].at..(scRows[j].start - 1)
    <2>1. \A k \in 1..Len(scRows) : RecordFits(scRows[k])
      BY Zenon, <1>1 DEF SportsRowsFit, RowFits, RowPosted
    <2>2. scRows[i].at \in Int /\ scRows[j].at \in Int BY Zenon, <2>1 DEF RecordFits
    <2>3. scRows[j].start \in Nat BY <2>1, SportsCycleAssumption DEF RecordFits
    <2> QED BY <1>2, <2>2, <2>3
  <1>3. ASSUME NEW i \in 1..Len(scRows), scRows[i].closing # NoOdds
        PROVE  /\ \E j \in 1..Len(scRows) :
                    /\ PickOf(scRows[j]) = PickOf(scRows[i]) /\ scRows[j].book = scRows[i].book
                    /\ scRows[j].odds = scRows[i].closing /\ scRows[j].start <= scClock
                    /\ scRows[j].at \in scRows[i].at..(scRows[j].start - 1)
               /\ \A j \in 1..Len(scRows) :
                    /\ PickOf(scRows[j]) = PickOf(scRows[i]) /\ scRows[j].book = scRows[i].book
                    /\ scRows[j].closing # NoOdds
                    => scRows[j].closing = scRows[i].closing
    BY Zenon, <1>1, <1>2, <1>3 DEF ClosesFit
  <1> QED BY Zenon, <1>1, <1>3 DEF ClosesAreTheBooksOwn

LEMMA SportsBatchesAddUp == ASSUME SportsInv PROVE BatchesAddUp
  <1>1. /\ BatchesFit(scBatches) /\ DOMAIN scBatches = 1..Len(scBatches) /\ Len(scBatches) \in Nat
    BY DEF SportsInv, BatchesFit, IsList
  <1>2. \A i \in DOMAIN scBatches :
           scBatches[i].status \in {"completed", "completed_with_rejections"} =>
               scBatches[i].received = scBatches[i].accepted + scBatches[i].rejected
    BY Zenon, <1>1 DEF BatchesFit, BatchFits
  <1>3. Len(scRows) \in Nat /\ RowsClaimed(scBatches, Len(scRows)) BY ClaimableIs
  <1>4. PICK ids : ids = 1..Len(scBatches) OBVIOUS
  <1>5. PICK part \in [ids -> SUBSET (1..Len(scRows))] :
           /\ \A i, j \in ids : i # j => part[i] \cap part[j] = {}
           /\ \A i \in ids : Cardinality(part[i]) = scBatches[i].accepted
    BY <1>3, <1>4 DEF RowsClaimed
  <1>6. PICK claimed : claimed = UNION {part[i] : i \in ids} OBVIOUS
  <1>7. claimed \subseteq 1..Len(scRows) BY <1>5, <1>6
  <1>8. IsFiniteSet(1..Len(scRows)) /\ Cardinality(1..Len(scRows)) = Len(scRows)
    <2>1. 1 \in Int /\ Len(scRows) \in Int BY <1>3
    <2>2. /\ IsFiniteSet(1..Len(scRows))
          /\ Cardinality(1..Len(scRows)) = IF 1 > Len(scRows) THEN 0 ELSE Len(scRows) - 1 + 1
      BY <2>1, FS_Interval
    <2>3. (IF 1 > Len(scRows) THEN 0 ELSE Len(scRows) - 1 + 1) = Len(scRows) BY <1>3
    <2> QED BY <2>2, <2>3
  <1>9. IsFiniteSet(claimed) /\ Cardinality(claimed) <= Len(scRows) BY <1>7, <1>8, FS_Subset
  <1>10. IsFiniteSet(ids)
    <2>1. 1 \in Int /\ Len(scBatches) \in Int BY <1>1
    <2> QED BY <1>4, <2>1, FS_Interval
  <1>11. part \in [ids -> SUBSET claimed]
    <2>1. \A i \in ids : part[i] \subseteq claimed BY Zenon, <1>6
    <2> QED BY <1>5, <2>1
  <1>12. SumFunction([i \in ids |-> Cardinality(part[i])]) = Cardinality(claimed)
    BY <1>5, <1>6, <1>9, <1>10, <1>11, PartsAddUp
  <1>13. [i \in DOMAIN scBatches |-> scBatches[i].accepted] = [i \in ids |-> Cardinality(part[i])]
    BY <1>1, <1>4, <1>5
  <1>14. SumFunction([i \in DOMAIN scBatches |-> scBatches[i].accepted]) <= Len(scRows)
    BY Zenon, <1>9, <1>12, <1>13
  <1> QED BY Zenon, <1>2, <1>14 DEF BatchesAddUp

LEMMA SportsPropertiesFollow == ASSUME SportsInv PROVE scTypeOK /\ SportsAreHonest
  BY SportsTypes, SportsGradesAgree, SportsCaughtUp, SportsClosesAreOwn, SportsBatchesAddUp
  DEF SportsAreHonest, SportsInv
=============================================================================
