------------------------- MODULE SportsQuotesProofs -------------------------
(***************************************************************************)
(* Proofs about SportsQuotes.  RowInv says which transactions can hold a   *)
(* version of a log row that is not committed; Committed and OwnView say   *)
(* that a quote, as it is committed and as its writer sees it, covers      *)
(* every open snapshot seen the same way.  Isolated(t) is what every step  *)
(* of t leaves alone: with it each step is shown to keep the invariant of  *)
(* the other transactions once, and its own separately.                    *)
(***************************************************************************)
EXTENDS SportsQuotes, TLAPS

\* Before it is committed a row is written by the logger that inserts it; an
\* open one can be held by a settlement; a graded one by nobody.
RowInv == \A i \in RowId :
    /\ rows[i].old.state = "absent" => rows[i].by \in Loggers \cup {None}
    /\ rows[i].old.state = "absent" /\ rows[i].by # None => rows[i].new.state = "unresolved"
    /\ rows[i].old.state = "unresolved" =>
         /\ rows[i].by \in Settlers \cup {None}
         /\ rows[i].new.quote = rows[i].old.quote
         /\ rows[i].new.time = rows[i].old.time
         /\ rows[i].new.state # "absent"
    /\ rows[i].old.state \in Outcome => rows[i].by = None
    /\ i > next => rows[i].by = None /\ rows[i].old.state = "absent"

\* A transaction is where its kind can be, and has written what it works on.
LoggerInv(t) ==
    /\ tx[t].pc \in {"idle", "logging", "upserting"}
    /\ At(t, "upserting") => tx[t].id \in RowId /\ rows[tx[t].id].by = t
SettlerInv(t) ==
    /\ tx[t].pc \in {"idle", "scanning", "settling", "promoting", "referencing"}
    /\ \A i \in tx[t].held : rows[i].by = t
    /\ At(t, "promoting") =>
         /\ tx[t].id \in RowId /\ rows[tx[t].id].by = t
         /\ quotes[rows[tx[t].id].new.quote].by = t
    /\ At(t, "referencing") => tx[t].id \in RowId
StepInv == (\A t \in Loggers : LoggerInv(t)) /\ (\A t \in Settlers : SettlerInv(t))

\* A quote points at a row that is there for whoever sees it.
PointsInv == \A q \in Quotes :
    /\ quotes[q].old # 0 => rows[quotes[q].old].old.state # "absent"
    /\ quotes[q].new # 0 => Sees(quotes[q].by, rows[quotes[q].new]).state # "absent"

\* Row i is the one quote value c shows, or older.
Covers(c, i) == c # 0 /\ After(c, i)

\* An inserted row whose trigger has not run yet, a quote between the deletion
\* and the promotion.
Pending(t, i) == At(t, "upserting") /\ tx[t].id = i
Promoting(t, q) == At(t, "promoting") /\ rows[tx[t].id].new.quote = q

Committed == \A i \in RowId :
    Unsettled(rows[i].old) => Covers(quotes[rows[i].old.quote].old, i)

OwnView(t) == \A q \in Quotes : \A i \in Candidates(t, q) :
    (quotes[q].by = t /\ ~Promoting(t, q) /\ ~Pending(t, i)) => Covers(quotes[q].new, i)

\* A logger has written the quote of every row it has inserted.
Inserted(t) == \A i \in RowId :
    (rows[i].by = t /\ ~Pending(t, i)) => quotes[rows[i].new.quote].by = t

QuotesInv ==
    /\ TypeOK /\ RowInv /\ StepInv /\ PointsInv /\ Committed
    /\ \A t \in Tx : OwnView(t)
    /\ \A t \in Loggers : Inserted(t)

-----------------------------------------------------------------------------
(* Updates of a version, of a row and of a transaction keep their types *)

\* A write changes the newest version only and puts the writer's name on it.
LEMMA WrittenTyped ==
    ASSUME NEW S, NEW v \in Versions(S), NEW x \in S, NEW t \in Tx
    PROVE /\ Written(t, v, x) \in Versions(S)
          /\ Written(t, v, x).old = v.old
          /\ Written(t, v, x).new = x
          /\ Written(t, v, x).by = t
  BY DEF Written, Versions

\* Keep makes the newest version the committed one.
LEMMA KeepTyped ==
    ASSUME NEW S, NEW v \in Versions(S)
    PROVE /\ Keep(v) \in Versions(S)
          /\ Keep(v).old = v.new /\ Keep(v).new = v.new /\ Keep(v).by = None
  BY DEF Keep, Versions

\* Undo gives the newest version up.
LEMMA UndoTyped ==
    ASSUME NEW S, NEW v \in Versions(S)
    PROVE /\ Undo(v) \in Versions(S)
          /\ Undo(v).old = v.old /\ Undo(v).new = v.old /\ Undo(v).by = None
  BY DEF Undo, Versions

\* A transaction at rest is a process.
LEMMA IdleTyped == Idle \in Process
  BY QuotesAssumption DEF Idle, Process, Step

\* Grading a row changes its state and nothing else.
LEMMA GradedTyped ==
    ASSUME NEW r \in Row, NEW s \in State
    PROVE /\ [r EXCEPT !.state = s] \in Row
          /\ [r EXCEPT !.state = s].state = s
          /\ [r EXCEPT !.state = s].quote = r.quote
          /\ [r EXCEPT !.state = s].time = r.time
          /\ [r EXCEPT !.state = s].run = r.run
  BY DEF Row

\* The parts of a well-typed state.
LEMMA Fields ==
    ASSUME TypeOK
    PROVE /\ \A i \in RowId : /\ rows[i] \in Versions(Row)
                              /\ rows[i].old \in Row /\ rows[i].new \in Row
                              /\ rows[i].by \in Tx \cup {None}
          /\ \A q \in Quotes : /\ quotes[q] \in Versions(0..MaxRows)
                               /\ quotes[q].old \in 0..MaxRows /\ quotes[q].new \in 0..MaxRows
                               /\ quotes[q].by \in Tx \cup {None}
          /\ \A t \in Tx : tx[t] \in Process
  BY DEF TypeOK, Versions

\* So are the parts of a row.
LEMMA RowFields ==
    ASSUME NEW r \in Row
    PROVE r.state \in State /\ r.quote \in Quotes /\ r.time \in 0..MaxTime /\ r.run \in Runs
  BY DEF Row

-----------------------------------------------------------------------------
(* The initial state *)

\* The placeholder of a row that was never inserted is well formed.
LEMMA NoRowTyped == NoRow \in Row /\ NoRow.state = "absent"
  BY QuotesAssumption DEF NoRow, Row, State

\* The empty tables are well formed.
LEMMA TypeInit == Init => TypeOK
<1> SUFFICES ASSUME Init PROVE TypeOK OBVIOUS
<1>1. Stored(NoRow) \in Versions(Row) BY NoRowTyped DEF Stored, Versions
<1>2. Stored(0) \in Versions(0..MaxRows)
  BY QuotesAssumption DEF Stored, Versions
<1>3. Stored(NoRow).new = Stored(NoRow).old /\ Stored(0).new = Stored(0).old
  BY DEF Stored
<1>4. next \in 0..MaxRows BY QuotesAssumption DEF Init
<1> QED BY <1>1, <1>2, <1>3, <1>4, IdleTyped DEF Init, TypeOK

-----------------------------------------------------------------------------
(* What a write of one row, and the end of a transaction, do to a table *)

\* The two invariants of a table of versions.
Table(f, D, S) ==
    /\ f \in [D -> Versions(S)]
    /\ \A d \in D : f[d].by = None => f[d].new = f[d].old

\* A commit makes the newest version of what the transaction wrote the
\* committed one.
LEMMA AllKept ==
    ASSUME NEW D, NEW S, NEW f, Table(f, D, S), NEW t \in Tx, NEW g,
           g = [e \in D |-> IF f[e].by = t THEN Keep(f[e]) ELSE f[e]]
    PROVE /\ Table(g, D, S)
          /\ \A e \in D : f[e].by = t =>
               g[e].old = f[e].new /\ g[e].new = f[e].new /\ g[e].by = None
          /\ \A e \in D : f[e].by # t => g[e] = f[e]
<1>1. \A e \in D : /\ Keep(f[e]) \in Versions(S) /\ Keep(f[e]).old = f[e].new
                   /\ Keep(f[e]).new = f[e].new /\ Keep(f[e]).by = None
  BY KeepTyped DEF Table
<1>2. \A e \in D : g[e] = IF f[e].by = t THEN Keep(f[e]) ELSE f[e]
  OBVIOUS
<1> QED BY <1>1, <1>2 DEF Table

\* A rollback restores the committed version of what the transaction wrote.
LEMMA AllUndone ==
    ASSUME NEW D, NEW S, NEW f, Table(f, D, S), NEW t \in Tx, NEW g,
           g = [e \in D |-> IF f[e].by = t THEN Undo(f[e]) ELSE f[e]]
    PROVE /\ Table(g, D, S)
          /\ \A e \in D : f[e].by = t =>
               g[e].old = f[e].old /\ g[e].new = f[e].old /\ g[e].by = None
          /\ \A e \in D : f[e].by # t => g[e] = f[e]
<1>1. \A e \in D : /\ Undo(f[e]) \in Versions(S) /\ Undo(f[e]).old = f[e].old
                   /\ Undo(f[e]).new = f[e].old /\ Undo(f[e]).by = None
  BY UndoTyped DEF Table
<1>2. \A e \in D : g[e] = IF f[e].by = t THEN Undo(f[e]) ELSE f[e]
  OBVIOUS
<1> QED BY <1>1, <1>2 DEF Table

\* TypeOK in terms of tables.
LEMMA TypeTables ==
    TypeOK <=> /\ Table(rows, RowId, Row) /\ Table(quotes, Quotes, 0..MaxRows)
               /\ next \in 0..MaxRows /\ tx \in [Tx -> Process] /\ overlap \in BOOLEAN
  BY DEF TypeOK, Table

-----------------------------------------------------------------------------
(* The process records the actions build *)

\* The pcs are steps.
LEMMA StepNames ==
    /\ "idle" \in Step /\ "logging" \in Step /\ "upserting" \in Step
    /\ "scanning" \in Step /\ "settling" \in Step /\ "promoting" \in Step
    /\ "referencing" \in Step
  BY DEF Step

\* A transaction that only takes its next step stays well-formed,
LEMMA MovedTyped ==
    ASSUME NEW p \in Process, NEW s \in Step
    PROVE [p EXCEPT !.pc = s] \in Process
  BY DEF Process

\* and so does one that begins with the time of its batch,
LEMMA BegunTyped ==
    ASSUME NEW p \in Process, NEW s \in Step, NEW time \in 0..MaxTime
    PROVE [p EXCEPT !.pc = s, !.time = time] \in Process
  BY DEF Process

\* one that inserted the row it now points at,
LEMMA AimedTyped ==
    ASSUME NEW p \in Process, NEW s \in Step, NEW i \in 0..MaxRows
    PROVE [p EXCEPT !.pc = s, !.id = i] \in Process
  BY DEF Process

\* one that read an outcome and the rows to settle,
LEMMA FoundTyped ==
    ASSUME NEW p \in Process, NEW s \in Step, NEW o \in Outcome \cup {"unresolved"},
           NEW D \in SUBSET RowId
    PROVE [p EXCEPT !.pc = s, !.outcome = o, !.todo = D] \in Process
  BY DEF Process

\* one that settled a row it held,
LEMMA SettledTyped ==
    ASSUME NEW p \in Process, NEW s \in Step, NEW i \in 0..MaxRows, NEW H \in SUBSET RowId
    PROVE [p EXCEPT !.held = H, !.id = i, !.pc = s] \in Process
  BY DEF Process

\* and one whose insert of an audit row locked the row it refers to.
LEMMA SharedTyped ==
    ASSUME NEW p \in Process, NEW s \in Step, NEW H \in SUBSET RowId
    PROVE [p EXCEPT !.pc = s, !.shared = H] \in Process
  BY DEF Process

\* Replacing one process.
LEMMA OneMoves ==
    ASSUME tx \in [Tx -> Process], NEW t \in Tx, NEW p \in Process, NEW f,
           f = [tx EXCEPT ![t] = p]
    PROVE f \in [Tx -> Process] /\ f[t] = p /\ \A u \in Tx : u # t => f[u] = tx[u]
  OBVIOUS

-----------------------------------------------------------------------------
(* What each action does, entry by entry *)

WritesRow(t, i, r) ==
    /\ rows'[i].old = rows[i].old /\ rows'[i].new = r /\ rows'[i].by = t
    /\ \A j \in RowId : j # i => rows'[j] = rows[j]

WritesQuote(t, q, c) ==
    /\ quotes'[q].old = quotes[q].old /\ quotes'[q].new = c /\ quotes'[q].by = t
    /\ \A k \in Quotes : k # q => quotes'[k] = quotes[k]

Moves(t, step) ==
    /\ tx'[t].pc = step
    /\ \A u \in Tx : u # t => tx'[u] = tx[u]

\* A step that writes one row.
LEMMA RowWritten ==
    ASSUME TypeOK, NEW t \in Tx, NEW i \in RowId, NEW r \in Row,
           rows' = [rows EXCEPT ![i] = Written(t, @, r)]
    PROVE Table(rows', RowId, Row) /\ WritesRow(t, i, r)
<1> DEFINE v == Written(t, rows[i], r)
<1>1. rows \in [RowId -> Versions(Row)] BY DEF TypeOK
<1>2. v \in Versions(Row) /\ v.old = rows[i].old /\ v.new = r /\ v.by = t
  BY <1>1, WrittenTyped
<1>3. rows' = [rows EXCEPT ![i] = v] OBVIOUS
<1> HIDE DEF v
<1>4. rows' \in [RowId -> Versions(Row)] /\ rows'[i] = v
  BY <1>1, <1>2, <1>3
<1>5. \A j \in RowId : j # i => rows'[j] = rows[j] BY <1>1, <1>3
<1>6. t # None BY QuotesAssumption
<1> QED BY <1>2, <1>4, <1>5, <1>6 DEF WritesRow, Table, TypeOK

\* A step that writes one quote.
LEMMA QuoteWritten ==
    ASSUME TypeOK, NEW t \in Tx, NEW q \in Quotes, NEW c \in 0..MaxRows,
           quotes' = [quotes EXCEPT ![q] = Written(t, @, c)]
    PROVE Table(quotes', Quotes, 0..MaxRows) /\ WritesQuote(t, q, c)
<1> DEFINE v == Written(t, quotes[q], c)
           S == 0..MaxRows
<1>1. quotes \in [Quotes -> Versions(S)] BY DEF TypeOK
<1> c \in S OBVIOUS
<1> HIDE DEF S
<1>2. v \in Versions(S) /\ v.old = quotes[q].old /\ v.new = c /\ v.by = t
  BY <1>1, WrittenTyped
<1>3. quotes' = [quotes EXCEPT ![q] = v] OBVIOUS
<1> HIDE DEF v
<1>4. quotes' \in [Quotes -> Versions(S)] /\ quotes'[q] = v
  BY <1>1, <1>2, <1>3
<1>5. \A k \in Quotes : k # q => quotes'[k] = quotes[k] BY <1>1, <1>3
<1>6. t # None BY QuotesAssumption
<1> QED BY <1>2, <1>4, <1>5, <1>6 DEF WritesQuote, Table, TypeOK, S

\* Beginning a batch of predictions writes nothing.
LEMMA BeginLogDoes ==
    ASSUME TypeOK, NEW t \in Loggers, BeginLog(t)
    PROVE /\ TypeOK' /\ Moves(t, "logging") /\ At(t, "idle")
          /\ UNCHANGED <<rows, quotes, next>>
<1>1. PICK time \in Time :
        tx' = [tx EXCEPT ![t] = [Idle EXCEPT !.pc = "logging", !.time = time]]
  BY DEF BeginLog
<1>2. t \in Tx /\ time \in 0..MaxTime BY QuotesAssumption DEF Tx, Time
<1> DEFINE p == [Idle EXCEPT !.pc = "logging", !.time = time]
<1>3. p \in Process BY <1>2, IdleTyped, StepNames, BegunTyped
<1>4. p.pc = "logging" BY DEF Idle
<1>5. tx' = [tx EXCEPT ![t] = p] BY <1>1
<1> HIDE DEF p
<1>6. tx' \in [Tx -> Process] /\ tx'[t] = p /\ \A u \in Tx : u # t => tx'[u] = tx[u]
  BY <1>2, <1>3, <1>5, OneMoves DEF TypeOK
<1> QED BY <1>4, <1>6 DEF BeginLog, Moves, TypeOK

\* Inserting a prediction writes the next row, unresolved.
LEMMA InsertDoes ==
    ASSUME TypeOK, NEW t \in Loggers, Insert(t)
    PROVE /\ TypeOK' /\ Moves(t, "upserting") /\ At(t, "logging")
          /\ next + 1 \in RowId /\ next' = next + 1
          /\ tx'[t].id = next + 1 /\ quotes' = quotes
          /\ \E r \in Row : r.state = "unresolved" /\ WritesRow(t, next + 1, r)
<1>1. PICK q \in Quotes : Insert(t)!(q) BY DEF Insert
<1>2. t \in Tx /\ next + 1 \in RowId /\ next + 1 \in 0..MaxRows
  BY <1>1, QuotesAssumption DEF Tx, RowId, TypeOK
<1> DEFINE r == [state |-> "unresolved", quote |-> q, time |-> tx[t].time, run |-> RunOf[t]]
           p == [tx[t] EXCEPT !.pc = "upserting", !.id = next + 1]
<1>3. tx[t] \in Process BY <1>2, Fields
<1>4. r \in Row /\ r.state = "unresolved"
  <2>1. tx[t].time \in 0..MaxTime BY <1>3 DEF Process
  <2>2. RunOf[t] \in Runs BY <1>2, QuotesAssumption
  <2> QED BY <2>1, <2>2 DEF Row, State
<1>5. p \in Process BY <1>2, <1>3, StepNames, AimedTyped
<1>6. p.pc = "upserting" /\ p.id = next + 1 BY <1>3 DEF Process
<1>7. rows' = [rows EXCEPT ![next + 1] = Written(t, @, r)] BY <1>1
<1>8. tx' = [tx EXCEPT ![t] = p] BY <1>1
<1> HIDE DEF r, p
<1>9. tx' \in [Tx -> Process] /\ tx'[t] = p /\ \A u \in Tx : u # t => tx'[u] = tx[u]
  BY <1>2, <1>5, <1>8, OneMoves DEF TypeOK
<1>10. Table(rows', RowId, Row) /\ WritesRow(t, next + 1, r)
  BY <1>2, <1>4, <1>7, RowWritten
<1>11. TypeOK'
  BY <1>1, <1>2, <1>9, <1>10 DEF TypeOK, Table
<1> QED BY <1>1, <1>2, <1>4, <1>6, <1>9, <1>10, <1>11 DEF Moves

\* The upsert writes the representative of one quote, and only forward.
LEMMA UpsertDoes ==
    ASSUME TypeOK, NEW t \in Loggers, Upsert(t),
           tx[t].id \in RowId
    PROVE LET i == tx[t].id
              q == rows[i].new.quote
          IN /\ TypeOK' /\ Moves(t, "logging") /\ At(t, "upserting")
             /\ q \in Quotes /\ Free(t, quotes[q])
             /\ WritesQuote(t, q, IF Wins(i, quotes[q].new) THEN i ELSE quotes[q].new)
             /\ rows' = rows /\ next' = next
<1> DEFINE i == tx[t].id
           q == rows[i].new.quote
           c == IF Wins(i, quotes[q].new) THEN i ELSE quotes[q].new
           p == [tx[t] EXCEPT !.pc = "logging"]
<1>1. t \in Tx BY DEF Tx
<1>2. tx[t] \in Process BY <1>1, Fields
<1>3. q \in Quotes BY Fields, RowFields
<1>4. c \in 0..MaxRows BY <1>3, Fields, QuotesAssumption DEF RowId
<1>5. p \in Process BY <1>2, StepNames, MovedTyped
<1>6. p.pc = "logging" BY <1>2 DEF Process
<1>7. /\ quotes' = [quotes EXCEPT ![q] = Written(t, @, c)]
      /\ tx' = [tx EXCEPT ![t] = p]
      /\ At(t, "upserting") /\ Free(t, quotes[q])
      /\ UNCHANGED <<rows, next, overlap>>
  BY <1>3 DEF Upsert, TypeOK
<1> HIDE DEF c, p
<1>8. tx' \in [Tx -> Process] /\ tx'[t] = p /\ \A u \in Tx : u # t => tx'[u] = tx[u]
  BY <1>1, <1>5, <1>7, OneMoves DEF TypeOK
<1>9. Table(quotes', Quotes, 0..MaxRows) /\ WritesQuote(t, q, c)
  BY <1>1, <1>3, <1>4, <1>7, QuoteWritten
<1>10. TypeOK' BY <1>7, <1>8, <1>9 DEF TypeOK, Table
<1> QED BY <1>3, <1>6, <1>7, <1>8, <1>9, <1>10 DEF Moves, c

\* Beginning a settlement reads and writes nothing.
LEMMA BeginSettleDoes ==
    ASSUME TypeOK, NEW t \in Settlers, BeginSettle(t)
    PROVE /\ TypeOK' /\ Moves(t, "scanning") /\ At(t, "idle")
          /\ tx'[t].held = {}
          /\ UNCHANGED <<rows, quotes, next>>
<1>1. PICK o \in Outcome \cup {"unresolved"} : BeginSettle(t)!(o) BY DEF BeginSettle
<1> DEFINE D == {i \in RowId : Unsettled(rows[i].old) /\ rows[i].old.run = RunOf[t]}
           p == [Idle EXCEPT !.pc = "scanning", !.outcome = o, !.todo = D]
<1>2. t \in Tx BY DEF Tx
<1>3. D \in SUBSET RowId OBVIOUS
<1>4. tx' = [tx EXCEPT ![t] = p] BY <1>1
<1> HIDE DEF D
<1>5. p \in Process BY <1>3, IdleTyped, StepNames, FoundTyped
<1>6. p.pc = "scanning" /\ p.held = {} BY DEF Idle
<1> HIDE DEF p
<1>7. tx' \in [Tx -> Process] /\ tx'[t] = p /\ \A u \in Tx : u # t => tx'[u] = tx[u]
  BY <1>2, <1>4, <1>5, OneMoves DEF TypeOK
<1>8. overlap' \in BOOLEAN BY <1>1 DEF TypeOK
<1>9. TypeOK' BY <1>1, <1>7, <1>8 DEF TypeOK
<1> QED BY <1>1, <1>6, <1>7, <1>9 DEF Moves

\* Taking a candidate locks one committed unsettled row.
LEMMA TakeDoes ==
    ASSUME TypeOK, NEW t \in Settlers, Take(t)
    PROVE /\ TypeOK' /\ Moves(t, "scanning") /\ At(t, "scanning")
          /\ UNCHANGED <<quotes, next>>
          /\ \E i \in RowId :
               /\ Free(t, rows[i]) /\ Unsettled(rows[i].old)
               /\ WritesRow(t, i, rows[i].new)
               /\ tx'[t].held = tx[t].held \cup {i}
<1>1. PICK i \in tx[t].todo : Take(t)!(i) BY DEF Take
<1>2. t \in Tx BY DEF Tx
<1>3. tx[t] \in Process BY <1>2, Fields
<1>4. i \in RowId BY <1>3 DEF Process
<1> DEFINE p == [tx[t] EXCEPT !.todo = @ \ {i}, !.held = @ \cup {i}]
<1>5. p \in Process /\ p.pc = tx[t].pc /\ p.held = tx[t].held \cup {i}
  BY <1>3, <1>4 DEF Process
<1>6. tx' = [tx EXCEPT ![t] = p] BY <1>1
<1>7. rows' = [rows EXCEPT ![i] = Written(t, @, rows[i].new)]
  BY <1>1, <1>4 DEF TypeOK
<1>8. Free(t, rows[i]) /\ Unsettled(rows[i].old) BY <1>1 DEF Locked
<1> HIDE DEF p
<1>9. tx' \in [Tx -> Process] /\ tx'[t] = p /\ \A u \in Tx : u # t => tx'[u] = tx[u]
  BY <1>2, <1>5, <1>6, OneMoves DEF TypeOK
<1>10. rows[i].new \in Row BY <1>4, Fields
<1>11. Table(rows', RowId, Row) /\ WritesRow(t, i, rows[i].new)
  BY <1>2, <1>4, <1>7, <1>10, RowWritten
<1>12. TypeOK' BY <1>1, <1>9, <1>11 DEF TypeOK, Table
<1>13. At(t, "scanning") /\ UNCHANGED <<quotes, next>> BY <1>1
<1>14. Moves(t, "scanning") BY <1>5, <1>9, <1>13 DEF Moves, At
<1> QED BY <1>4, <1>5, <1>8, <1>9, <1>11, <1>12, <1>13, <1>14

\* A candidate that another transaction holds is skipped and nothing written.
LEMMA SkipDoes ==
    ASSUME TypeOK, NEW t \in Settlers, Skip(t)
    PROVE /\ TypeOK' /\ Moves(t, "scanning") /\ At(t, "scanning")
          /\ tx'[t].held = tx[t].held
          /\ UNCHANGED <<rows, quotes, next>>
<1>1. PICK i \in tx[t].todo : Skip(t)!(i) BY DEF Skip
<1> DEFINE p == [tx[t] EXCEPT !.todo = @ \ {i}]
<1>2. t \in Tx BY DEF Tx
<1>3. tx[t] \in Process BY <1>2, Fields
<1>4. p \in Process /\ p.pc = tx[t].pc /\ p.held = tx[t].held BY <1>3 DEF Process
<1>5. tx' = [tx EXCEPT ![t] = p] BY <1>1
<1> HIDE DEF p
<1>6. tx' \in [Tx -> Process] /\ tx'[t] = p /\ \A u \in Tx : u # t => tx'[u] = tx[u]
  BY <1>2, <1>4, <1>5, OneMoves DEF TypeOK
<1> QED BY <1>1, <1>4, <1>6 DEF At, Moves, TypeOK

\* A settlement that went through its candidates keeps what it locked.
LEMMA ScannedDoes ==
    ASSUME TypeOK, NEW t \in Settlers, Scanned(t)
    PROVE /\ TypeOK' /\ Moves(t, "settling") /\ At(t, "scanning")
          /\ tx'[t].held = tx[t].held
          /\ UNCHANGED <<rows, quotes, next>>
<1> DEFINE p == [tx[t] EXCEPT !.pc = "settling"]
<1>1. t \in Tx BY DEF Tx
<1>2. tx[t] \in Process BY <1>1, Fields
<1>3. p \in Process BY <1>2, StepNames, MovedTyped
<1>4. p.pc = "settling" /\ p.held = tx[t].held BY <1>2 DEF Process
<1>5. tx' = [tx EXCEPT ![t] = p] BY DEF Scanned
<1> HIDE DEF p
<1>6. tx' \in [Tx -> Process] /\ tx'[t] = p /\ \A u \in Tx : u # t => tx'[u] = tx[u]
  BY <1>1, <1>3, <1>5, OneMoves DEF TypeOK
<1> QED BY <1>4, <1>6 DEF Scanned, Moves, TypeOK

\* A settlement decides one of the rows it locked, and not its quote or time.
LEMMA SettleDoes ==
    ASSUME TypeOK, NEW t \in Settlers, Settle(t)
    PROVE /\ TypeOK' /\ At(t, "settling") /\ next' = next
          /\ \E i \in tx[t].held, r \in Row :
               LET q == rows[i].new.quote
               IN /\ i \in RowId /\ q \in Quotes
                  /\ Unsettled(rows[i].new) /\ r.state \in Outcome
                  /\ r.quote = q /\ r.time = rows[i].new.time
                  /\ WritesRow(t, i, r)
                  /\ tx'[t].held = tx[t].held \ {i} /\ tx'[t].id = i
                  /\ \/ /\ ~Owned(t, i) /\ quotes' = quotes /\ Moves(t, "settling")
                     \/ /\ Owned(t, i) /\ Free(t, quotes[q])
                        /\ WritesQuote(t, q, 0) /\ Moves(t, "promoting")
<1>1. PICK i \in tx[t].held :
        LET q == rows[i].new.quote IN
        /\ At(t, "settling") /\ tx[t].outcome \in Outcome
        /\ Unsettled(rows[i].new)
        /\ Owned(t, i) => Free(t, quotes[q])
        /\ rows' = [rows EXCEPT ![i] = Written(t, @, [@.new EXCEPT !.state = tx[t].outcome])]
        /\ quotes' = IF Owned(t, i) THEN [quotes EXCEPT ![q] = Written(t, @, 0)] ELSE quotes
        /\ tx' = [tx EXCEPT ![t].held = @ \ {i}, ![t].id = i,
             ![t].pc = IF Owned(t, i) THEN "promoting" ELSE "settling"]
        /\ UNCHANGED <<next, overlap>>
  BY DEF Settle
<1> DEFINE q == rows[i].new.quote
           r == [rows[i].new EXCEPT !.state = tx[t].outcome]
           step == IF Owned(t, i) THEN "promoting" ELSE "settling"
           p == [tx[t] EXCEPT !.held = @ \ {i}, !.id = i, !.pc = step]
<1>2. t \in Tx BY DEF Tx
<1>3. tx[t] \in Process BY <1>2, Fields
<1>4. i \in RowId /\ i \in 0..MaxRows
  BY <1>3, QuotesAssumption DEF Process, RowId
<1>5. rows[i].new \in Row /\ q \in Quotes BY <1>4, Fields, RowFields
<1>6. /\ r \in Row /\ r.state = tx[t].outcome /\ r.quote = q
      /\ r.time = rows[i].new.time
  <2>1. tx[t].outcome \in State BY <1>1 DEF State
  <2> QED BY <1>5, <2>1, GradedTyped
<1>7. tx' = [tx EXCEPT ![t] = p] BY <1>1, <1>2 DEF TypeOK
<1>8. rows' = [rows EXCEPT ![i] = Written(t, @, r)] BY <1>1, <1>4 DEF TypeOK
<1>9. quotes' = IF Owned(t, i) THEN [quotes EXCEPT ![q] = Written(t, @, 0)] ELSE quotes
  BY <1>1
<1>10. step \in Step BY StepNames
<1> HIDE DEF r, step
<1>11. p \in Process /\ p.pc = step /\ p.held = tx[t].held \ {i} /\ p.id = i
  BY <1>3, <1>4, <1>10 DEF Process
<1> HIDE DEF p
<1>12. tx' \in [Tx -> Process] /\ tx'[t] = p /\ \A u \in Tx : u # t => tx'[u] = tx[u]
  BY <1>2, <1>7, <1>11, OneMoves DEF TypeOK
<1>13. Table(rows', RowId, Row) /\ WritesRow(t, i, r)
  BY <1>2, <1>4, <1>6, <1>8, RowWritten
<1>14. Moves(t, step) BY <1>11, <1>12 DEF Moves
<1>15. 0 \in 0..MaxRows BY QuotesAssumption
<1>16. Owned(t, i) => Table(quotes', Quotes, 0..MaxRows) /\ WritesQuote(t, q, 0)
  BY <1>2, <1>5, <1>9, <1>15, QuoteWritten
<1>17. ~Owned(t, i) => quotes' = quotes BY <1>9
<1>18. TypeOK' BY <1>1, <1>12, <1>13, <1>16, <1>17 DEF TypeOK, Table
<1>19. tx'[t].held = tx[t].held \ {i} /\ tx'[t].id = i BY <1>11, <1>12
<1>20. \/ /\ ~Owned(t, i) /\ quotes' = quotes /\ Moves(t, "settling")
       \/ /\ Owned(t, i) /\ Free(t, quotes[q])
          /\ WritesQuote(t, q, 0) /\ Moves(t, "promoting")
  BY <1>1, <1>14, <1>16, <1>17 DEF step
<1>21. tx[t].outcome \in Outcome /\ Unsettled(rows[i].new) /\ At(t, "settling") /\ next' = next
  BY <1>1
<1> QED BY <1>4, <1>5, <1>6, <1>13, <1>18, <1>19, <1>20, <1>21

\* Promoting writes the representative of the quote of the settled row: the
\* latest of its candidates, or nothing if it has none.
LEMMA PromoteDoes ==
    ASSUME TypeOK, NEW t \in Settlers, Promote(t), tx[t].id \in RowId
    PROVE LET q == rows[tx[t].id].new.quote
          IN /\ TypeOK' /\ At(t, "promoting") /\ q \in Quotes
             /\ UNCHANGED <<rows, next>> /\ tx'[t].held = tx[t].held
             /\ \/ /\ Candidates(t, q) = {} /\ quotes' = quotes
                   /\ Moves(t, "settling")
                \/ \E i \in Candidates(t, q) :
                     /\ i \in RowId /\ \A j \in Candidates(t, q) : After(i, j)
                     /\ WritesQuote(t, q, i)
                     /\ Moves(t, "referencing") /\ tx'[t].id = i
<1> DEFINE q == rows[tx[t].id].new.quote
<1>1. t \in Tx BY DEF Tx
<1>2. tx[t] \in Process BY <1>1, Fields
<1>3. q \in Quotes BY Fields, RowFields
<1>4. At(t, "promoting") /\ UNCHANGED <<rows, next, overlap>> BY DEF Promote
<1>5. CASE /\ Candidates(t, q) = {}
           /\ tx' = [tx EXCEPT ![t].pc = "settling"]
           /\ UNCHANGED quotes
  <2> DEFINE p == [tx[t] EXCEPT !.pc = "settling"]
  <2>1. p \in Process BY <1>2, StepNames, MovedTyped
  <2>2. p.pc = "settling" /\ p.held = tx[t].held BY <1>2 DEF Process
  <2>3. tx' = [tx EXCEPT ![t] = p] BY <1>5
  <2> HIDE DEF p
  <2>4. tx' \in [Tx -> Process] /\ tx'[t] = p /\ \A u \in Tx : u # t => tx'[u] = tx[u]
    BY <1>1, <2>1, <2>3, OneMoves DEF TypeOK
  <2>5. TypeOK' BY <1>4, <1>5, <2>4 DEF TypeOK
  <2> QED BY <1>3, <1>4, <1>5, <2>2, <2>4, <2>5 DEF Moves
<1>6. ASSUME NEW i \in Candidates(t, q),
             \A j \in Candidates(t, q) : After(i, j),
             quotes' = [quotes EXCEPT ![q] = Written(t, @, i)],
             tx' = [tx EXCEPT ![t].pc = "referencing", ![t].id = i]
      PROVE /\ TypeOK' /\ i \in RowId /\ WritesQuote(t, q, i)
            /\ Moves(t, "referencing") /\ tx'[t].id = i /\ tx'[t].held = tx[t].held
  <2> DEFINE p == [tx[t] EXCEPT !.pc = "referencing", !.id = i]
  <2>1. i \in RowId /\ i \in 0..MaxRows BY QuotesAssumption DEF Candidates, RowId
  <2>2. p \in Process BY <1>2, <2>1, StepNames, AimedTyped
  <2>3. p.pc = "referencing" /\ p.id = i /\ p.held = tx[t].held BY <1>2 DEF Process
  <2>4. tx' = [tx EXCEPT ![t] = p] BY <1>6
  <2> HIDE DEF p
  <2>5. tx' \in [Tx -> Process] /\ tx'[t] = p /\ \A u \in Tx : u # t => tx'[u] = tx[u]
    BY <1>1, <2>2, <2>4, OneMoves DEF TypeOK
  <2>6. Table(quotes', Quotes, 0..MaxRows) /\ WritesQuote(t, q, i)
    BY <1>1, <1>3, <1>6, <2>1, QuoteWritten
  <2>7. TypeOK' BY <1>4, <2>5, <2>6 DEF TypeOK, Table
  <2> QED BY <2>1, <2>3, <2>5, <2>6, <2>7 DEF Moves
<1>7. \/ /\ Candidates(t, q) = {}
         /\ tx' = [tx EXCEPT ![t].pc = "settling"]
         /\ UNCHANGED quotes
      \/ \E i \in Candidates(t, q) :
           /\ \A j \in Candidates(t, q) : After(i, j)
           /\ quotes' = [quotes EXCEPT ![q] = Written(t, @, i)]
           /\ tx' = [tx EXCEPT ![t].pc = "referencing", ![t].id = i]
  BY DEF Promote
<1> QED BY <1>3, <1>4, <1>5, <1>6, <1>7

\* The audit row of a settlement locks the row it refers to.
LEMMA ReferenceDoes ==
    ASSUME TypeOK, NEW t \in Settlers, Reference(t), tx[t].id \in RowId
    PROVE /\ TypeOK' /\ Moves(t, "settling") /\ At(t, "referencing")
          /\ tx'[t].held = tx[t].held
          /\ UNCHANGED <<rows, quotes, next>>
<1> DEFINE p == [tx[t] EXCEPT !.pc = "settling", !.shared = @ \cup {tx[t].id}]
<1>1. t \in Tx BY DEF Tx
<1>2. tx[t] \in Process BY <1>1, Fields
<1>3. p \in Process /\ p.pc = "settling" /\ p.held = tx[t].held
  BY <1>2, StepNames DEF Process
<1>4. tx' = [tx EXCEPT ![t] = p] BY DEF Reference
<1> HIDE DEF p
<1>5. tx' \in [Tx -> Process] /\ tx'[t] = p /\ \A u \in Tx : u # t => tx'[u] = tx[u]
  BY <1>1, <1>3, <1>4, OneMoves DEF TypeOK
<1> QED BY <1>3, <1>5 DEF Reference, Moves, TypeOK

\* A commit publishes what the transaction wrote and releases its locks.
LEMMA CommitDoes ==
    ASSUME TypeOK, NEW t \in Tx, Commit(t)
    PROVE /\ TypeOK' /\ Moves(t, "idle") /\ next' = next
          /\ At(t, "logging") \/ At(t, "settling")
          /\ tx'[t].held = {}
          /\ \A i \in RowId : rows[i].by = t =>
               rows'[i].old = rows[i].new /\ rows'[i].new = rows[i].new /\ rows'[i].by = None
          /\ \A i \in RowId : rows[i].by # t => rows'[i] = rows[i]
          /\ \A q \in Quotes : quotes[q].by = t =>
               quotes'[q].old = quotes[q].new /\ quotes'[q].new = quotes[q].new
               /\ quotes'[q].by = None
          /\ \A q \in Quotes : quotes[q].by # t => quotes'[q] = quotes[q]
<1> DEFINE f == rows'
           g == quotes'
           S == 0..MaxRows
<1>1. /\ f = [i \in RowId |-> IF rows[i].by = t THEN Keep(rows[i]) ELSE rows[i]]
      /\ g = [q \in Quotes |-> IF quotes[q].by = t THEN Keep(quotes[q]) ELSE quotes[q]]
      /\ tx' = [tx EXCEPT ![t] = Idle] /\ UNCHANGED <<next, overlap>>
      /\ At(t, "logging") \/ At(t, "settling")
  BY DEF Commit
<1>2. Table(rows, RowId, Row) /\ Table(quotes, Quotes, S) BY TypeTables
<1> HIDE DEF f, g, S
<1>3. /\ Table(f, RowId, Row)
      /\ \A e \in RowId : rows[e].by = t =>
               f[e].old = rows[e].new /\ f[e].new = rows[e].new /\ f[e].by = None
      /\ \A e \in RowId : rows[e].by # t => f[e] = rows[e]
  BY <1>1, <1>2, AllKept
<1>4. /\ Table(g, Quotes, S)
      /\ \A e \in Quotes : quotes[e].by = t =>
               g[e].old = quotes[e].new /\ g[e].new = quotes[e].new /\ g[e].by = None
      /\ \A e \in Quotes : quotes[e].by # t => g[e] = quotes[e]
  BY <1>1, <1>2, AllKept
<1>5. tx' \in [Tx -> Process] /\ tx'[t] = Idle /\ \A u \in Tx : u # t => tx'[u] = tx[u]
  BY <1>1, IdleTyped, OneMoves DEF TypeOK
<1>6. Idle.pc = "idle" /\ Idle.held = {} BY DEF Idle
<1>7. TypeOK' BY <1>1, <1>3, <1>4, <1>5 DEF TypeOK, Table, f, g, S
<1> QED BY <1>1, <1>3, <1>4, <1>5, <1>6, <1>7 DEF Moves, f, g

\* A rollback restores what was committed and releases the locks.
LEMMA RollbackDoes ==
    ASSUME TypeOK, NEW t \in Tx, Rollback(t)
    PROVE /\ TypeOK' /\ Moves(t, "idle") /\ next' = next
          /\ tx'[t].held = {}
          /\ \A i \in RowId : rows[i].by = t =>
               rows'[i].old = rows[i].old /\ rows'[i].new = rows[i].old /\ rows'[i].by = None
          /\ \A i \in RowId : rows[i].by # t => rows'[i] = rows[i]
          /\ \A q \in Quotes : quotes[q].by = t =>
               quotes'[q].old = quotes[q].old /\ quotes'[q].new = quotes[q].old
               /\ quotes'[q].by = None
          /\ \A q \in Quotes : quotes[q].by # t => quotes'[q] = quotes[q]
<1> DEFINE f == rows'
           g == quotes'
           S == 0..MaxRows
<1>1. /\ f = [i \in RowId |-> IF rows[i].by = t THEN Undo(rows[i]) ELSE rows[i]]
      /\ g = [q \in Quotes |-> IF quotes[q].by = t THEN Undo(quotes[q]) ELSE quotes[q]]
      /\ tx' = [tx EXCEPT ![t] = Idle] /\ UNCHANGED <<next, overlap>>
  BY DEF Rollback
<1>2. Table(rows, RowId, Row) /\ Table(quotes, Quotes, S) BY TypeTables
<1> HIDE DEF f, g, S
<1>3. /\ Table(f, RowId, Row)
      /\ \A e \in RowId : rows[e].by = t =>
               f[e].old = rows[e].old /\ f[e].new = rows[e].old /\ f[e].by = None
      /\ \A e \in RowId : rows[e].by # t => f[e] = rows[e]
  BY <1>1, <1>2, AllUndone
<1>4. /\ Table(g, Quotes, S)
      /\ \A e \in Quotes : quotes[e].by = t =>
               g[e].old = quotes[e].old /\ g[e].new = quotes[e].old /\ g[e].by = None
      /\ \A e \in Quotes : quotes[e].by # t => g[e] = quotes[e]
  BY <1>1, <1>2, AllUndone
<1>5. tx' \in [Tx -> Process] /\ tx'[t] = Idle /\ \A u \in Tx : u # t => tx'[u] = tx[u]
  BY <1>1, IdleTyped, OneMoves DEF TypeOK
<1>6. Idle.pc = "idle" /\ Idle.held = {} BY DEF Idle
<1>7. TypeOK' BY <1>1, <1>3, <1>4, <1>5 DEF TypeOK, Table, f, g, S
<1> QED BY <1>1, <1>3, <1>4, <1>5, <1>6, <1>7 DEF Moves, f, g

-----------------------------------------------------------------------------
(* Isolation: what every step of a transaction leaves alone *)

\* Step t touches neither what another transaction has written nor where the
\* others are; a committed row stays, and stays where it is in time.
Isolated(t) ==
    /\ \A u \in Tx : u # t => tx'[u] = tx[u]
    /\ \A i \in RowId :
         /\ rows[i].by \notin {None, t} => rows'[i] = rows[i]
         /\ rows'[i].by \notin {None, t} => rows'[i] = rows[i]
         /\ rows[i].old.state # "absent" =>
              rows'[i].old.state # "absent" /\ rows'[i].new.time = rows[i].new.time
    /\ \A q \in Quotes :
         /\ quotes[q].by \notin {None, t} => quotes'[q] = quotes[q]
         /\ quotes'[q].by \notin {None, t} => quotes'[q] = quotes[q]

\* Nothing is committed.
SameOld ==
    /\ \A i \in RowId : rows'[i].old = rows[i].old
    /\ \A q \in Quotes : quotes'[q].old = quotes[q].old

\* Steps that leave both tables and the sequence alone.
LEMMA QuietIsolated ==
    ASSUME TypeOK, RowInv, NEW t \in Tx, NEW step, Moves(t, step),
           rows' = rows, quotes' = quotes, next' = next
    PROVE RowInv' /\ Isolated(t) /\ SameOld
<1>1. RowInv' BY DEF RowInv
<1> QED BY <1>1 DEF Isolated, SameOld, Moves

\* Inserting a prediction touches no row that another transaction wrote.
LEMMA InsertIsolated ==
    ASSUME TypeOK, RowInv, NEW t \in Loggers, Insert(t)
    PROVE RowInv' /\ Isolated(t) /\ SameOld
<1>1. /\ Moves(t, "upserting") /\ next + 1 \in RowId /\ next' = next + 1
      /\ quotes' = quotes
  BY InsertDoes
<1>2. PICK r \in Row : r.state = "unresolved" /\ WritesRow(t, next + 1, r)
  BY InsertDoes
<1>3. rows[next + 1].by = None /\ rows[next + 1].old.state = "absent"
  BY <1>1 DEF RowInv, TypeOK
<1>4. t \in Tx BY DEF Tx
<1>5. RowInv'
  <2> SUFFICES ASSUME NEW i \in RowId PROVE RowInv!(i)'
    BY DEF RowInv
  <2>1. CASE i = next + 1
    BY <1>1, <1>2, <1>3, <2>1 DEF WritesRow, Outcome, RowId, TypeOK
  <2>2. CASE i # next + 1
    <3>1. rows'[i] = rows[i] BY <1>2, <2>2 DEF WritesRow
    <3>2. i > next' => i > next BY <1>1 DEF TypeOK, RowId
    <3> QED BY <3>1, <3>2 DEF RowInv
  <2> QED BY <2>1, <2>2
<1> QED BY <1>1, <1>2, <1>3, <1>4, <1>5 DEF Isolated, SameOld, Moves, WritesRow

\* Nor does the upsert of a representative,
LEMMA UpsertIsolated ==
    ASSUME TypeOK, RowInv, NEW t \in Loggers, Upsert(t), tx[t].id \in RowId
    PROVE RowInv' /\ Isolated(t) /\ SameOld
<1> DEFINE q == rows[tx[t].id].new.quote
<1>1. /\ Moves(t, "logging") /\ q \in Quotes /\ Free(t, quotes[q])
      /\ \E c : WritesQuote(t, q, c)
      /\ rows' = rows /\ next' = next
  BY UpsertDoes
<1> HIDE DEF q
<1>2. RowInv' BY <1>1 DEF RowInv
<1>3. t \in Tx BY DEF Tx
<1> QED BY <1>1, <1>2, <1>3 DEF Isolated, SameOld, Moves, WritesQuote, Free

\* nor taking a candidate,
LEMMA TakeIsolated ==
    ASSUME TypeOK, RowInv, NEW t \in Settlers, Take(t)
    PROVE RowInv' /\ Isolated(t) /\ SameOld
<1>1. Moves(t, "scanning") /\ quotes' = quotes /\ next' = next BY TakeDoes
<1>2. PICK i \in RowId : /\ Free(t, rows[i]) /\ Unsettled(rows[i].old)
                         /\ WritesRow(t, i, rows[i].new)
  BY TakeDoes
<1>3. t \in Tx BY DEF Tx
<1>4. RowInv'
  <2> SUFFICES ASSUME NEW j \in RowId PROVE RowInv!(j)'
    BY DEF RowInv
  <2>1. CASE j = i
    BY <1>1, <1>2, <2>1, QuotesAssumption DEF RowInv, WritesRow, Free, Unsettled, Outcome
  <2>2. CASE j # i
    <3>1. rows'[j] = rows[j] BY <1>2, <2>2 DEF WritesRow
    <3> QED BY <1>1, <3>1 DEF RowInv
  <2> QED BY <2>1, <2>2
<1> QED BY <1>1, <1>2, <1>3, <1>4 DEF Isolated, SameOld, Moves, WritesRow, Free

\* What a settlement holds is open, and stands where it stood.
LEMMA HeldIsOpen ==
    ASSUME TypeOK, RowInv, NEW t \in Settlers, NEW i \in RowId, rows[i].by = t
    PROVE /\ rows[i].old.state = "unresolved"
          /\ rows[i].new.quote = rows[i].old.quote
          /\ rows[i].new.time = rows[i].old.time
          /\ rows[i].new.state # "absent"
<1>1. t \notin Loggers /\ t # None BY QuotesAssumption DEF Tx
<1>2. rows[i].old.state \in State BY Fields, RowFields
<1> QED BY <1>1, <1>2 DEF RowInv, State

\* What a logger has written is new.
LEMMA InsertedIsNew ==
    ASSUME TypeOK, RowInv, NEW t \in Loggers, NEW i \in RowId, rows[i].by = t
    PROVE rows[i].old.state = "absent" /\ rows[i].new.state = "unresolved"
<1>1. t \notin Settlers /\ t # None BY QuotesAssumption DEF Tx
<1>2. rows[i].old.state \in State BY Fields, RowFields
<1> QED BY <1>1, <1>2 DEF RowInv, State

\* nor settling a row,
LEMMA SettleIsolated ==
    ASSUME TypeOK, RowInv, StepInv, NEW t \in Settlers, Settle(t)
    PROVE RowInv' /\ Isolated(t) /\ SameOld
<1>1. PICK i \in tx[t].held, r \in Row :
         /\ i \in RowId /\ rows[i].new.quote \in Quotes
         /\ r.state \in Outcome /\ r.quote = rows[i].new.quote
         /\ r.time = rows[i].new.time /\ WritesRow(t, i, r)
         /\ \/ quotes' = quotes /\ Moves(t, "settling")
            \/ /\ Free(t, quotes[rows[i].new.quote])
               /\ WritesQuote(t, rows[i].new.quote, 0) /\ Moves(t, "promoting")
  BY SettleDoes
<1>2. next' = next BY SettleDoes
<1>3. rows[i].by = t BY <1>1 DEF StepInv, SettlerInv
<1>4. t \in Tx BY DEF Tx
<1>5. RowInv'
  <2> SUFFICES ASSUME NEW j \in RowId PROVE RowInv!(j)'
    BY DEF RowInv
  <2>1. CASE j = i
    <3>1. /\ rows[i].old.state = "unresolved" /\ r.quote = rows[i].old.quote
          /\ r.time = rows[i].old.time
      BY <1>1, <1>3, HeldIsOpen
    <3>2. rows'[j].old = rows[i].old /\ rows'[j].new = r /\ rows'[j].by = t
      BY <1>1, <2>1 DEF WritesRow
    <3>3. ~(i > next) BY <1>1, <3>1 DEF RowInv
    <3> QED BY <1>1, <1>2, <2>1, <3>1, <3>2, <3>3 DEF Outcome
  <2>2. CASE j # i
    <3>1. rows'[j] = rows[j] BY <1>1, <2>2 DEF WritesRow
    <3> QED BY <1>2, <3>1 DEF RowInv
  <2> QED BY <2>1, <2>2
<1>6. Isolated(t)
  <2>1. \A j \in RowId :
         /\ rows[j].by \notin {None, t} => rows'[j] = rows[j]
         /\ rows'[j].by \notin {None, t} => rows'[j] = rows[j]
         /\ rows[j].old.state # "absent" =>
              rows'[j].old.state # "absent" /\ rows'[j].new.time = rows[j].new.time
    BY <1>1, <1>3 DEF WritesRow
  <2> QED BY <1>1, <1>4, <2>1 DEF Isolated, Moves, WritesQuote, Free
<1>7. SameOld BY <1>1 DEF SameOld, WritesRow, WritesQuote
<1> QED BY <1>5, <1>6, <1>7

\* nor promoting a representative,
LEMMA PromoteIsolated ==
    ASSUME TypeOK, RowInv, NEW t \in Settlers, Promote(t), tx[t].id \in RowId,
           quotes[rows[tx[t].id].new.quote].by = t
    PROVE RowInv' /\ Isolated(t) /\ SameOld
<1> DEFINE q == rows[tx[t].id].new.quote
<1>1. /\ q \in Quotes /\ rows' = rows /\ next' = next
      /\ \/ quotes' = quotes /\ Moves(t, "settling")
         \/ (\E c : WritesQuote(t, q, c)) /\ Moves(t, "referencing")
  BY PromoteDoes
<1>2. t \in Tx /\ quotes[q].by = t BY DEF Tx
<1> HIDE DEF q
<1>3. RowInv' BY <1>1 DEF RowInv
<1> QED BY <1>1, <1>2, <1>3 DEF Isolated, SameOld, Moves, WritesQuote

\* nor a commit,
LEMMA CommitIsolated ==
    ASSUME TypeOK, RowInv, NEW t \in Tx, Commit(t)
    PROVE RowInv' /\ Isolated(t)
<1>1. /\ Moves(t, "idle") /\ next' = next
      /\ \A i \in RowId : rows[i].by = t =>
           rows'[i].old = rows[i].new /\ rows'[i].new = rows[i].new /\ rows'[i].by = None
      /\ \A i \in RowId : rows[i].by # t => rows'[i] = rows[i]
      /\ \A q \in Quotes : quotes[q].by = t => quotes'[q].by = None
      /\ \A q \in Quotes : quotes[q].by # t => quotes'[q] = quotes[q]
  BY CommitDoes
<1>2. t # None BY QuotesAssumption
<1>3. \A i \in RowId : rows[i].by = t => rows[i].new.state # "absent"
  BY HeldIsOpen, InsertedIsNew DEF Tx
<1>4. RowInv'
  <2> SUFFICES ASSUME NEW i \in RowId PROVE RowInv!(i)'
    BY DEF RowInv
  <2>1. CASE rows[i].by = t
    BY <1>1, <1>2, <1>3, <2>1 DEF RowInv
  <2>2. CASE rows[i].by # t
    BY <1>1, <2>2 DEF RowInv
  <2> QED BY <2>1, <2>2
<1>5. Isolated(t) BY <1>1, <1>2, <1>3 DEF Isolated, Moves
<1> QED BY <1>4, <1>5

\* nor a rollback.
LEMMA RollbackIsolated ==
    ASSUME TypeOK, RowInv, NEW t \in Tx, Rollback(t)
    PROVE RowInv' /\ Isolated(t) /\ SameOld
<1>1. /\ Moves(t, "idle") /\ next' = next
      /\ \A i \in RowId : rows[i].by = t =>
           rows'[i].old = rows[i].old /\ rows'[i].new = rows[i].old /\ rows'[i].by = None
      /\ \A i \in RowId : rows[i].by # t => rows'[i] = rows[i]
      /\ \A q \in Quotes : quotes[q].by = t =>
           quotes'[q].old = quotes[q].old /\ quotes'[q].by = None
      /\ \A q \in Quotes : quotes[q].by # t => quotes'[q] = quotes[q]
  BY RollbackDoes
<1>2. t # None BY QuotesAssumption
<1>3. \A i \in RowId : rows[i].by = t =>
        rows[i].old.state = "absent" \/ rows[i].new.time = rows[i].old.time
  BY HeldIsOpen, InsertedIsNew DEF Tx
<1>4. RowInv'
  <2> SUFFICES ASSUME NEW i \in RowId PROVE RowInv!(i)'
    BY DEF RowInv
  <2>1. CASE rows[i].by = t
    BY <1>1, <1>2, <2>1 DEF RowInv
  <2>2. CASE rows[i].by # t
    BY <1>1, <2>2 DEF RowInv
  <2> QED BY <2>1, <2>2
<1>5. Isolated(t) BY <1>1, <1>2, <1>3 DEF Isolated, Moves
<1>6. SameOld BY <1>1 DEF SameOld
<1> QED BY <1>4, <1>5, <1>6

-----------------------------------------------------------------------------
(* StepInv is preserved *)

\* The step of one transaction keeps what holds of the others.
LEMMA OthersStay ==
    ASSUME TypeOK, StepInv, NEW t \in Tx, Isolated(t)
    PROVE /\ \A u \in Loggers : u # t => LoggerInv(u)'
          /\ \A u \in Settlers : u # t => SettlerInv(u)'
<1>1. ASSUME NEW u \in Loggers, u # t PROVE LoggerInv(u)'
  <2>1. u \in Tx /\ u # None BY QuotesAssumption DEF Tx
  <2>2. tx'[u] = tx[u] BY <1>1, <2>1 DEF Isolated
  <2>3. \A i \in RowId : rows[i].by = u => rows'[i] = rows[i]
    BY <1>1, <2>1 DEF Isolated
  <2> QED BY <2>2, <2>3 DEF StepInv, LoggerInv, At
<1>2. ASSUME NEW u \in Settlers, u # t PROVE SettlerInv(u)'
  <2>1. u \in Tx /\ u # None BY QuotesAssumption DEF Tx
  <2>2. tx'[u] = tx[u] /\ tx[u] \in Process BY <1>2, <2>1, Fields DEF Isolated
  <2>3. \A i \in RowId : rows[i].by = u => rows'[i] = rows[i]
    BY <1>2, <2>1 DEF Isolated
  <2>4. \A q \in Quotes : quotes[q].by = u => quotes'[q] = quotes[q]
    BY <1>2, <2>1 DEF Isolated
  <2>5. \A i \in RowId : rows[i].new.quote \in Quotes BY Fields, RowFields
  <2>6. tx[u].held \subseteq RowId BY <2>2 DEF Process
  <2>7. SettlerInv(u) BY DEF StepInv
  <2>8. \A i \in tx'[u].held : rows'[i].by = u
    BY <2>2, <2>3, <2>6, <2>7 DEF SettlerInv
  <2>9. At(u, "promoting")' =>
         /\ tx'[u].id \in RowId /\ rows'[tx'[u].id].by = u
         /\ quotes'[rows'[tx'[u].id].new.quote].by = u
    <3> SUFFICES ASSUME At(u, "promoting")
        PROVE /\ tx[u].id \in RowId /\ rows'[tx[u].id].by = u
              /\ quotes'[rows'[tx[u].id].new.quote].by = u
      BY <2>2 DEF At
    <3>1. /\ tx[u].id \in RowId /\ rows[tx[u].id].by = u
          /\ quotes[rows[tx[u].id].new.quote].by = u
      BY <2>7 DEF SettlerInv
    <3>2. rows'[tx[u].id] = rows[tx[u].id] BY <2>3, <3>1
    <3> QED BY <2>4, <2>5, <3>1, <3>2
  <2> QED BY <2>2, <2>7, <2>8, <2>9 DEF SettlerInv, At
<1> QED BY <1>1, <1>2

\* A logger's own step.
LEMMA LoggerStays ==
    ASSUME TypeOK, RowInv, StepInv, NEW t \in Loggers,
           BeginLog(t) \/ Insert(t) \/ Upsert(t) \/ Commit(t) \/ Rollback(t)
    PROVE LoggerInv(t)'
<1>1. t \in Tx BY DEF Tx
<1>2. CASE BeginLog(t)
  BY <1>2, BeginLogDoes DEF Moves, LoggerInv, At
<1>3. CASE Insert(t)
  BY <1>3, InsertDoes DEF Moves, LoggerInv, WritesRow
<1>4. CASE Upsert(t)
  <2>1. tx[t].id \in RowId BY <1>4 DEF Upsert, StepInv, LoggerInv
  <2> QED BY <1>4, <2>1, UpsertDoes DEF Moves, LoggerInv, At
<1>5. CASE Commit(t)
  BY <1>1, <1>5, CommitDoes DEF Moves, LoggerInv, At
<1>6. CASE Rollback(t)
  BY <1>1, <1>6, RollbackDoes DEF Moves, LoggerInv, At
<1> QED BY <1>2, <1>3, <1>4, <1>5, <1>6

\* A settlement's own step.
LEMMA SettlerStays ==
    ASSUME TypeOK, RowInv, StepInv, NEW t \in Settlers,
           \/ BeginSettle(t) \/ Take(t) \/ Skip(t) \/ Scanned(t) \/ Settle(t)
           \/ Promote(t) \/ Reference(t) \/ Commit(t) \/ Rollback(t)
    PROVE SettlerInv(t)'
<1>1. t \in Tx /\ SettlerInv(t) BY DEF Tx, StepInv
<1>2. CASE BeginSettle(t)
  BY <1>2, BeginSettleDoes DEF Moves, SettlerInv, At
<1>3. CASE Take(t)
  <2>1. PICK i \in RowId : WritesRow(t, i, rows[i].new) /\ tx'[t].held = tx[t].held \cup {i}
    BY <1>3, TakeDoes
  <2>2. tx'[t].pc = "scanning" BY <1>3, TakeDoes DEF Moves
  <2>3. tx[t].held \subseteq RowId BY <1>1, Fields DEF Process
  <2>4. \A j \in tx'[t].held : rows'[j].by = t
    BY <1>1, <2>1, <2>3 DEF SettlerInv, WritesRow
  <2> QED BY <2>2, <2>4 DEF SettlerInv, At
<1>4. CASE Skip(t)
  BY <1>1, <1>4, SkipDoes DEF Moves, SettlerInv, At
<1>5. CASE Scanned(t)
  BY <1>1, <1>5, ScannedDoes DEF Moves, SettlerInv, At
<1>6. CASE Settle(t)
  <2>1. PICK i \in tx[t].held, r \in Row :
          LET q == rows[i].new.quote
          IN /\ i \in RowId /\ q \in Quotes /\ r.quote = q
             /\ WritesRow(t, i, r)
             /\ tx'[t].held = tx[t].held \ {i} /\ tx'[t].id = i
             /\ \/ Moves(t, "settling")
                \/ WritesQuote(t, q, 0) /\ Moves(t, "promoting")
    BY <1>6, SettleDoes
  <2>2. tx[t].held \subseteq RowId BY <1>1, Fields DEF Process
  <2>3. \A j \in tx'[t].held : rows'[j].by = t
    BY <1>1, <2>1, <2>2 DEF SettlerInv, WritesRow
  <2>4. CASE Moves(t, "settling")
    BY <2>3, <2>4 DEF SettlerInv, At, Moves
  <2>5. CASE WritesQuote(t, rows[i].new.quote, 0) /\ Moves(t, "promoting")
    <3>1. rows'[i].by = t /\ rows'[i].new.quote = rows[i].new.quote
      BY <2>1 DEF WritesRow
    <3>2. quotes'[rows[i].new.quote].by = t BY <2>5 DEF WritesQuote
    <3> QED BY <2>1, <2>3, <2>5, <3>1, <3>2 DEF SettlerInv, At, Moves
  <2> QED BY <2>1, <2>4, <2>5
<1>7. CASE Promote(t)
  <2>1. tx[t].id \in RowId BY <1>1, <1>7 DEF Promote, SettlerInv
  <2>2. /\ rows' = rows /\ tx'[t].held = tx[t].held
        /\ Moves(t, "settling") \/ (Moves(t, "referencing") /\ tx'[t].id \in RowId)
    BY <1>7, <2>1, PromoteDoes
  <2> QED BY <1>1, <2>2 DEF SettlerInv, At, Moves
<1>8. CASE Reference(t)
  <2>1. tx[t].id \in RowId BY <1>1, <1>8 DEF Reference, SettlerInv
  <2> QED BY <1>1, <1>8, <2>1, ReferenceDoes DEF SettlerInv, At, Moves
<1>9. CASE Commit(t)
  BY <1>1, <1>9, CommitDoes DEF Moves, SettlerInv, At
<1>10. CASE Rollback(t)
  BY <1>1, <1>10, RollbackDoes DEF Moves, SettlerInv, At
<1> QED BY <1>2, <1>3, <1>4, <1>5, <1>6, <1>7, <1>8, <1>9, <1>10

-----------------------------------------------------------------------------
(* The order of the snapshots *)

\* After is a total order of the rows.
LEMMA AfterOrder ==
    ASSUME TypeOK
    PROVE /\ \A i \in RowId : After(i, i)
          /\ \A i, j \in RowId : After(i, j) \/ After(j, i)
          /\ \A i, j, k \in RowId : After(i, j) /\ After(j, k) => After(i, k)
<1> DEFINE T(i) == rows[i].new.time
<1>1. \A i \in RowId : T(i) \in Int
  BY Fields, RowFields, QuotesAssumption
<1>2. \A i, j \in RowId : After(i, j) <=> T(i) > T(j) \/ (T(i) = T(j) /\ i >= j)
  BY DEF After
<1> HIDE DEF T
<1> QED BY <1>1, <1>2 DEF RowId

\* A step that leaves the times of two rows alone leaves their order alone.
LEMMA AfterKept ==
    ASSUME NEW i \in RowId, NEW j \in RowId, After(i, j),
           rows'[i].new.time = rows[i].new.time, rows'[j].new.time = rows[j].new.time
    PROVE After(i, j)'
  BY DEF After

-----------------------------------------------------------------------------
(* PointsInv is preserved *)

\* What no transaction sees is what is committed.
LEMMA SeesNone ==
    ASSUME NEW v, v.by = None => v.new = v.old
    PROVE Sees(None, v) = v.old
  BY DEF Sees

\* A row that has a writer is there for its writer, after a step.
LEMMA WrittenIsThere ==
    ASSUME TypeOK', RowInv', NEW i \in RowId, rows'[i].by # None
    PROVE rows'[i].new.state # "absent"
<1>1. rows'[i] \in Versions(Row) BY DEF TypeOK
<1>2. rows'[i].by \in Tx /\ rows'[i].old.state \in State BY <1>1 DEF Versions, Row
<1> QED BY <1>2 DEF RowInv, State, Tx

\* A quote the step has not written points at a row that is there.
LEMMA OthersPoint ==
    ASSUME TypeOK, TypeOK', PointsInv, NEW t \in Tx, Isolated(t),
           NEW q \in Quotes, quotes'[q] = quotes[q], quotes[q].by # t
    PROVE PointsInv!(q)'
<1> DEFINE o == quotes[q].old
           c == quotes[q].new
           u == quotes[q].by
<1>1. o \in 0..MaxRows /\ c \in 0..MaxRows /\ u \in Tx \cup {None} BY Fields
<1>2. o # 0 => o \in RowId BY <1>1, QuotesAssumption DEF RowId
<1>3. c # 0 => c \in RowId BY <1>1, QuotesAssumption DEF RowId
<1>4. o # 0 => rows'[o].old.state # "absent" BY <1>2 DEF PointsInv, Isolated
<1>5. c # 0 => Sees(u, rows[c]).state # "absent" BY DEF PointsInv
<1>6. ASSUME c # 0 PROVE Sees(u, rows'[c]).state # "absent"
  <2>1. CASE u = None
    <3>1. Sees(u, rows'[c]) = rows'[c].old BY <1>3, <1>6, <2>1, SeesNone DEF TypeOK
    <3>2. c = o BY <2>1 DEF TypeOK
    <3> QED BY <1>4, <1>6, <3>1, <3>2
  <2>2. CASE u # None
    <3>1. CASE rows[c].by = u
      BY <1>3, <1>5, <1>6, <2>2, <3>1 DEF Isolated
    <3>2. CASE rows[c].by # u
      <4>1. rows[c].old.state # "absent" BY <1>5, <1>6, <3>2 DEF Sees
      <4>2. rows'[c].old.state # "absent" BY <1>3, <1>6, <4>1 DEF Isolated
      <4>3. rows'[c].by # u BY <1>3, <1>6, <2>2, <3>2 DEF Isolated
      <4> QED BY <4>2, <4>3 DEF Sees
    <3> QED BY <3>1, <3>2
  <2> QED BY <2>1, <2>2
<1> QED BY <1>4, <1>6

\* While the transaction goes on, what it saw is still there.
LEMMA StillThere ==
    ASSUME TypeOK', RowInv', NEW t \in Tx, SameOld, NEW c \in RowId,
           rows[c].by = t => rows'[c].by = t,
           Sees(t, rows[c]).state # "absent"
    PROVE Sees(t, rows'[c]).state # "absent"
<1>1. t # None BY QuotesAssumption
<1>2. CASE rows'[c].by = t BY <1>1, <1>2, WrittenIsThere DEF Sees
<1>3. CASE rows'[c].by # t BY <1>3 DEF Sees, SameOld
<1> QED BY <1>2, <1>3

\* A step that commits nothing keeps PointsInv if it keeps its own rows and
\* points only at rows it sees.
LEMMA PointsStay ==
    ASSUME TypeOK, TypeOK', RowInv', PointsInv, NEW t \in Tx, Isolated(t), SameOld,
           \A i \in RowId : rows[i].by = t => rows'[i].by = t,
           \A q \in Quotes : (quotes'[q].by = t /\ quotes'[q].new # 0) =>
             Sees(t, rows[quotes'[q].new]).state # "absent"
    PROVE PointsInv'
<1> SUFFICES ASSUME NEW q \in Quotes PROVE PointsInv!(q)'
  BY DEF PointsInv
<1>1. t # None BY QuotesAssumption
<1>2. CASE quotes'[q].by = t
  <2> DEFINE o == quotes'[q].old
             c == quotes'[q].new
  <2>1. o = quotes[q].old /\ o \in 0..MaxRows BY Fields DEF SameOld
  <2>2. o # 0 => o \in RowId BY <2>1, QuotesAssumption DEF RowId
  <2>3. o # 0 => rows'[o].old.state # "absent" BY <2>1, <2>2 DEF PointsInv, Isolated
  <2>4. c \in 0..MaxRows BY DEF TypeOK, Versions
  <2>5. c # 0 => c \in RowId BY <2>4, QuotesAssumption DEF RowId
  <2>6. c # 0 => Sees(t, rows'[c]).state # "absent"
    BY <1>2, <2>5, StillThere
  <2> QED BY <1>2, <2>3, <2>6
<1>3. CASE quotes'[q].by \notin {t, None}
  BY <1>3, OthersPoint DEF Isolated
<1>4. CASE quotes'[q].by = None
  <2> DEFINE o == quotes'[q].old
             c == quotes'[q].new
  <2>1. c = o /\ o = quotes[q].old /\ o \in 0..MaxRows
    BY <1>4, Fields DEF SameOld, TypeOK
  <2>2. o # 0 => o \in RowId BY <2>1, QuotesAssumption DEF RowId
  <2>3. o # 0 => rows'[o].old.state # "absent" BY <2>1, <2>2 DEF PointsInv, Isolated
  <2>4. o # 0 => Sees(None, rows'[o]) = rows'[o].old BY <2>2, SeesNone DEF TypeOK
  <2> QED BY <1>4, <2>1, <2>3, <2>4
<1> QED BY <1>2, <1>3, <1>4

\* The quotes a transaction has written show rows it sees.
LEMMA PointsSeen ==
    ASSUME PointsInv, NEW t \in Tx, NEW q \in Quotes, quotes[q].by = t, quotes[q].new # 0
    PROVE Sees(t, rows[quotes[q].new]).state # "absent"
  BY DEF PointsInv

\* A commit makes what the transaction saw what everyone sees.
LEMMA CommitPoints ==
    ASSUME TypeOK, RowInv, PointsInv, NEW t \in Tx, Commit(t)
    PROVE PointsInv'
<1>1. TypeOK' /\ Isolated(t) BY CommitDoes, CommitIsolated
<1>2. /\ \A i \in RowId : rows[i].by = t =>
           rows'[i].old = rows[i].new /\ rows'[i].new = rows[i].new
      /\ \A i \in RowId : rows[i].by # t => rows'[i] = rows[i]
      /\ \A q \in Quotes : quotes[q].by = t =>
           quotes'[q].old = quotes[q].new /\ quotes'[q].new = quotes[q].new
           /\ quotes'[q].by = None
      /\ \A q \in Quotes : quotes[q].by # t => quotes'[q] = quotes[q]
  BY CommitDoes
<1> SUFFICES ASSUME NEW q \in Quotes PROVE PointsInv!(q)'
  BY DEF PointsInv
<1>3. CASE quotes[q].by # t BY <1>1, <1>2, <1>3, OthersPoint
<1>4. CASE quotes[q].by = t
  <2> DEFINE c == quotes[q].new
  <2>1. c # 0 => c \in RowId BY Fields, QuotesAssumption DEF RowId
  <2>2. c # 0 => Sees(t, rows[c]).state # "absent" BY <1>4, PointsSeen
  <2>3. c # 0 => rows'[c].old.state # "absent" BY <1>2, <2>1, <2>2 DEF Sees
  <2>4. c # 0 => Sees(None, rows'[c]) = rows'[c].old BY <1>1, <2>1, SeesNone DEF TypeOK
  <2> QED BY <1>2, <1>4, <2>3, <2>4
<1> QED BY <1>3, <1>4

\* A rollback restores what everyone else sees.
LEMMA RollbackPoints ==
    ASSUME TypeOK, RowInv, PointsInv, NEW t \in Tx, Rollback(t)
    PROVE PointsInv'
<1>1. TypeOK' /\ Isolated(t) BY RollbackDoes, RollbackIsolated
<1>2. /\ \A q \in Quotes : quotes[q].by = t =>
           quotes'[q].old = quotes[q].old /\ quotes'[q].new = quotes[q].old
           /\ quotes'[q].by = None
      /\ \A q \in Quotes : quotes[q].by # t => quotes'[q] = quotes[q]
  BY RollbackDoes
<1> SUFFICES ASSUME NEW q \in Quotes PROVE PointsInv!(q)'
  BY DEF PointsInv
<1>3. CASE quotes[q].by # t BY <1>1, <1>2, <1>3, OthersPoint
<1>4. CASE quotes[q].by = t
  <2> DEFINE o == quotes[q].old
  <2>1. o # 0 => o \in RowId BY Fields, QuotesAssumption DEF RowId
  <2>2. o # 0 => rows'[o].old.state # "absent" BY <1>1, <2>1 DEF PointsInv, Isolated
  <2>3. o # 0 => Sees(None, rows'[o]) = rows'[o].old BY <1>1, <2>1, SeesNone DEF TypeOK
  <2> QED BY <1>2, <1>4, <2>2, <2>3
<1> QED BY <1>3, <1>4

-----------------------------------------------------------------------------
(* Committed is preserved *)

\* Steps that commit nothing.
LEMMA CommittedStays ==
    ASSUME TypeOK, PointsInv, Committed, NEW t \in Tx, Isolated(t), SameOld
    PROVE Committed'
<1> SUFFICES ASSUME NEW i \in RowId, Unsettled(rows'[i].old)
    PROVE Covers(quotes[rows[i].old.quote].old, i)'
  BY DEF Committed, SameOld
<1> DEFINE q == rows[i].old.quote
           c == quotes[q].old
<1>1. rows'[i].old = rows[i].old BY DEF SameOld
<1>2. q \in Quotes /\ c \in 0..MaxRows BY Fields, RowFields
<1>3. quotes'[q].old = c /\ rows'[i].old.quote = q BY <1>1, <1>2 DEF SameOld
<1>4. c # 0 /\ After(c, i) BY <1>1 DEF Committed, Covers
<1>5. c \in RowId BY <1>2, <1>4, QuotesAssumption DEF RowId
<1>6. rows[c].old.state # "absent" BY <1>2, <1>4 DEF PointsInv
<1>7. rows[i].old.state # "absent" BY <1>1 DEF Unsettled
<1>8. rows'[c].new.time = rows[c].new.time /\ rows'[i].new.time = rows[i].new.time
  BY <1>5, <1>6, <1>7 DEF Isolated
<1>9. PICK d \in RowId : d = c BY <1>5
<1>10. After(d, i)' BY <1>4, <1>8, <1>9, AfterKept
<1>11. quotes'[rows'[i].old.quote].old = d /\ d # 0 BY <1>3, <1>4, <1>9
<1> QED BY <1>10, <1>11 DEF Covers, After

-----------------------------------------------------------------------------
(* OwnView and Inserted are preserved *)

\* What the step of t leaves of the view of another transaction u.
LEMMA OthersView ==
    ASSUME TypeOK, TypeOK', RowInv, StepInv, PointsInv, NEW t \in Tx, Isolated(t),
           SameOld \/ Commit(t), t \in Loggers => Inserted(t),
           NEW u \in Tx, u # t, OwnView(u)
    PROVE OwnView(u)'
<1> SUFFICES ASSUME NEW q \in Quotes, NEW i \in RowId, i \in Candidates(u, q)',
                    quotes'[q].by = u, ~Promoting(u, q)', ~Pending(u, i)'
    PROVE Covers(quotes[q].new, i)'
  BY DEF OwnView, Candidates
<1>1. u # None /\ t # None BY QuotesAssumption
<1>2. quotes'[q] = quotes[q] /\ tx'[u] = tx[u] BY <1>1 DEF Isolated
<1>3. ~Pending(u, i) BY <1>2 DEF Pending, At
<1>4. ~Promoting(u, q)
  <2> SUFFICES ASSUME Promoting(u, q) PROVE FALSE OBVIOUS
  <2>1. At(u, "promoting") /\ rows[tx[u].id].new.quote = q BY DEF Promoting
  <2>2. u \in Settlers BY <2>1 DEF StepInv, LoggerInv, Tx, At
  <2>3. tx[u].id \in RowId /\ rows[tx[u].id].by = u
    BY <2>1, <2>2 DEF StepInv, SettlerInv
  <2>4. rows'[tx[u].id] = rows[tx[u].id] BY <1>1, <2>3 DEF Isolated
  <2> QED BY <1>2, <2>1, <2>4 DEF Promoting, At
<1>5. Unsettled(Sees(u, rows'[i])) /\ Sees(u, rows'[i]).quote = q
  BY DEF Candidates
<1>6. Unsettled(Sees(u, rows[i])) /\ Sees(u, rows[i]).quote = q
  <2>1. CASE rows'[i].by = u
    BY <1>1, <1>5, <2>1 DEF Isolated
  <2>2. CASE rows'[i].by # u
    <3>1. rows[i].by # u BY <1>1, <2>2 DEF Isolated
    <3>2. Unsettled(rows'[i].old) /\ rows'[i].old.quote = q BY <1>5, <2>2 DEF Sees
    <3>3. CASE SameOld BY <3>1, <3>2, <3>3 DEF SameOld, Sees
    <3>4. CASE Commit(t)
      <4>1. CASE rows[i].by # t BY <3>1, <3>2, <3>4, <4>1, CommitDoes DEF Sees
      <4>2. CASE rows[i].by = t
        <5>1. rows'[i].old = rows[i].new BY <3>4, <4>2, CommitDoes
        <5>2. CASE t \in Loggers
          <6>1. ~Pending(t, i) BY <3>4, CommitDoes DEF Pending, At
          <6>2. quotes[q].by = t BY <3>2, <4>2, <5>1, <5>2, <6>1 DEF Inserted
          <6> QED BY <1>2, <6>2
        <5>3. CASE t \in Settlers
          <6>1. rows[i].old.state = "unresolved" /\ rows[i].new.quote = rows[i].old.quote
            BY <4>2, <5>3, HeldIsOpen
          <6> QED BY <3>1, <3>2, <5>1, <6>1 DEF Unsettled, Sees
        <5> QED BY <5>2, <5>3 DEF Tx
      <4> QED BY <4>1, <4>2
    <3> QED BY <3>3, <3>4
  <2> QED BY <2>1, <2>2
<1>7. i \in Candidates(u, q) BY <1>6 DEF Candidates
<1>8. Covers(quotes[q].new, i) BY <1>2, <1>3, <1>4, <1>7 DEF OwnView
<1>9. quotes[q].new \in RowId
  BY <1>8, Fields, QuotesAssumption DEF RowId, Covers
<1>10. PICK d \in RowId : d = quotes[q].new BY <1>9
<1>11. Sees(u, rows[d]).state # "absent" BY <1>2, <1>8, <1>10, PointsSeen DEF Covers
<1>12. \A j \in RowId : Sees(u, rows[j]).state # "absent" =>
         rows'[j].new.time = rows[j].new.time
  BY <1>1 DEF Isolated, Sees
<1>13. After(d, i)' BY <1>6, <1>8, <1>10, <1>11, <1>12, AfterKept DEF Covers, Unsettled
<1> QED BY <1>2, <1>8, <1>10, <1>13 DEF Covers, After

\* A logger is never promoting, a settlement never upserting.
LEMMA KindSteps ==
    ASSUME StepInv, NEW t \in Tx
    PROVE /\ t \in Loggers => \A q \in Quotes : ~Promoting(t, q)
          /\ t \in Settlers => \A i \in RowId : ~Pending(t, i)
  BY DEF StepInv, LoggerInv, SettlerInv, Promoting, Pending, At

\* A step of t that changes neither table nor where the trigger stands.
LEMMA QuietView ==
    ASSUME NEW t \in Tx, OwnView(t), rows' = rows, quotes' = quotes,
           ~At(t, "promoting"), ~At(t, "upserting")
    PROVE OwnView(t)'
<1>1. \A q \in Quotes : ~Promoting(t, q) BY DEF Promoting
<1>2. \A i \in RowId : ~Pending(t, i) BY DEF Pending
<1> QED BY <1>1, <1>2 DEF OwnView, Candidates, Covers, After

\* The end of a transaction leaves it without quotes.
LEMMA EndView ==
    ASSUME NEW t \in Tx, \A q \in Quotes : quotes'[q].by # t
    PROVE OwnView(t)'
  BY DEF OwnView

\* A logger that inserted a prediction still sees a representative per quote.
LEMMA InsertView ==
    ASSUME TypeOK, RowInv, PointsInv, NEW t \in Loggers, Insert(t), StepInv, OwnView(t)
    PROVE OwnView(t)'
<1>1. /\ Moves(t, "upserting") /\ tx'[t].id = next + 1 /\ next + 1 \in RowId
      /\ quotes' = quotes /\ At(t, "logging")
  BY InsertDoes
<1>2. PICK r \in Row : WritesRow(t, next + 1, r) BY InsertDoes
<1>3. t \in Tx /\ t # None BY QuotesAssumption DEF Tx
<1> SUFFICES ASSUME NEW q \in Quotes, NEW i \in RowId, i \in Candidates(t, q)',
                    quotes'[q].by = t, ~Pending(t, i)'
    PROVE Covers(quotes[q].new, i)'
  BY DEF OwnView, Candidates
<1>4. i # next + 1 BY <1>1 DEF Pending, Moves, At
<1>5. rows'[i] = rows[i] BY <1>2, <1>4 DEF WritesRow
<1>6. i \in Candidates(t, q) BY <1>5 DEF Candidates
<1>7. ~Pending(t, i) /\ ~Promoting(t, q) BY <1>1 DEF Pending, Promoting, At
<1>8. Covers(quotes[q].new, i) BY <1>1, <1>6, <1>7 DEF OwnView
<1>9. quotes[q].new \in RowId
  BY <1>8, Fields, QuotesAssumption DEF RowId, Covers
<1>10. PICK d \in RowId : d = quotes[q].new BY <1>9
<1>11. Sees(t, rows[d]).state # "absent" BY <1>1, <1>3, <1>8, <1>10, PointsSeen DEF Covers
<1>12. d # next + 1
  <2>1. rows[next + 1].by = None /\ rows[next + 1].old.state = "absent"
    BY <1>1 DEF RowInv, TypeOK
  <2> QED BY <1>3, <1>11, <2>1 DEF Sees
<1>13. rows'[d] = rows[d] BY <1>2, <1>12 DEF WritesRow
<1>14. After(d, i)' BY <1>5, <1>8, <1>10, <1>13, AfterKept DEF Covers
<1> QED BY <1>1, <1>8, <1>10, <1>14 DEF Covers, After

\* So does one that moved the representative,
LEMMA UpsertView ==
    ASSUME TypeOK, RowInv, StepInv, Committed, NEW t \in Loggers, Upsert(t),
           OwnView(t), Inserted(t)
    PROVE OwnView(t)'
<1> DEFINE n == tx[t].id
           k == rows[n].new.quote
           cur == quotes[k].new
           c == IF Wins(n, cur) THEN n ELSE cur
<1>1. At(t, "upserting") /\ n \in RowId /\ rows[n].by = t
  BY DEF Upsert, StepInv, LoggerInv
<1>2. /\ k \in Quotes /\ Free(t, quotes[k]) /\ WritesQuote(t, k, c)
      /\ rows' = rows
  BY <1>1, UpsertDoes
<1>3. t \in Tx /\ t # None BY QuotesAssumption DEF Tx
<1>4. cur \in 0..MaxRows /\ (cur # 0 => cur \in RowId)
  <2>1. k \in Quotes BY <1>1, Fields, RowFields
  <2>2. cur \in 0..MaxRows BY <2>1, Fields
  <2> QED BY <2>2, QuotesAssumption DEF RowId
<1>5. \A q \in Quotes : ~Promoting(t, q) BY <1>3, KindSteps
<1>6. ASSUME NEW i \in Candidates(t, k), i # n PROVE i \in RowId /\ Covers(cur, i)
  <2>1. i \in RowId /\ Unsettled(Sees(t, rows[i])) /\ Sees(t, rows[i]).quote = k
    BY DEF Candidates
  <2>2. ~Pending(t, i) BY <1>6 DEF Pending
  <2>3. CASE quotes[k].by = t BY <1>2, <1>5, <2>1, <2>2, <2>3 DEF OwnView
  <2>4. CASE quotes[k].by # t
    <3>1. quotes[k].by = None BY <1>2, <2>4 DEF Free
    <3>2. cur = quotes[k].old BY <1>2, <3>1 DEF TypeOK
    <3>3. rows[i].by # t BY <2>1, <2>2, <2>4 DEF Inserted, Sees
    <3>4. Unsettled(rows[i].old) /\ rows[i].old.quote = k BY <2>1, <3>3 DEF Sees
    <3> QED BY <2>1, <3>2, <3>4 DEF Committed
  <2> QED BY <2>1, <2>3, <2>4
<1>7. ASSUME NEW i \in Candidates(t, k) PROVE Covers(c, i)
  <2>1. i \in RowId BY DEF Candidates
  <2>2. n # 0 BY <1>1 DEF RowId
  <2>3. CASE i = n
    <3>1. CASE Wins(n, cur) BY <1>1, <2>2, <2>3, <3>1, AfterOrder DEF Covers
    <3>2. CASE ~Wins(n, cur) BY <1>1, <1>4, <2>3, <3>2, AfterOrder DEF Covers, Wins
    <3> QED BY <3>1, <3>2
  <2>4. CASE i # n
    <3>1. Covers(cur, i) BY <1>6, <2>4
    <3>2. CASE Wins(n, cur)
      <4>1. cur # 0 /\ cur \in RowId BY <1>4, <3>1 DEF Covers
      <4>2. After(n, cur) /\ After(cur, i) BY <3>1, <3>2, <4>1 DEF Wins, Covers
      <4>3. After(n, i) BY <1>1, <2>1, <4>1, <4>2, AfterOrder
      <4> QED BY <2>2, <3>2, <4>3 DEF Covers
    <3>3. CASE ~Wins(n, cur) BY <3>1, <3>3
    <3> QED BY <3>2, <3>3
  <2> QED BY <2>3, <2>4
<1> SUFFICES ASSUME NEW q \in Quotes, NEW i \in RowId, i \in Candidates(t, q)',
                    quotes'[q].by = t
    PROVE Covers(quotes[q].new, i)'
  BY DEF OwnView, Candidates
<1>8. i \in Candidates(t, q) BY <1>2 DEF Candidates
<1>9. CASE q = k
  <2>1. quotes'[q].new = c BY <1>2, <1>9 DEF WritesQuote
  <2>2. Covers(c, i) BY <1>7, <1>8, <1>9
  <2> HIDE DEF c
  <2> QED BY <1>2, <2>1, <2>2 DEF Covers, After
<1>10. CASE q # k
  <2>1. quotes'[q] = quotes[q] BY <1>2, <1>10 DEF WritesQuote
  <2>2. i # n BY <1>1, <1>8, <1>10 DEF Candidates, Sees
  <2>3. Covers(quotes[q].new, i) BY <1>5, <1>8, <2>1, <2>2 DEF OwnView, Pending
  <2> QED BY <1>2, <2>1, <2>3 DEF Covers, After
<1> QED BY <1>9, <1>10

\* a settler that locked a candidate,
LEMMA TakeView ==
    ASSUME TypeOK, NEW t \in Settlers, Take(t), OwnView(t)
    PROVE OwnView(t)'
<1>1. PICK k \in RowId : Free(t, rows[k]) /\ WritesRow(t, k, rows[k].new)
  BY TakeDoes
<1>2. quotes' = quotes /\ At(t, "scanning") BY TakeDoes
<1>3. t # None BY QuotesAssumption DEF Tx
<1>4. \A j \in RowId : Sees(t, rows'[j]) = Sees(t, rows[j]) /\ rows'[j].new = rows[j].new
  BY <1>1, <1>3 DEF WritesRow, Free, Sees, TypeOK
<1> SUFFICES ASSUME NEW q \in Quotes, NEW i \in RowId, i \in Candidates(t, q)',
                    quotes'[q].by = t
    PROVE Covers(quotes[q].new, i)'
  BY DEF OwnView, Candidates
<1>5. i \in Candidates(t, q) BY <1>4 DEF Candidates
<1>6. Covers(quotes[q].new, i) BY <1>2, <1>5 DEF OwnView, Promoting, Pending, At
<1>7. quotes[q].new \in RowId
  BY <1>6, Fields, QuotesAssumption DEF RowId, Covers
<1>8. PICK d \in RowId : d = quotes[q].new BY <1>7
<1>9. After(d, i)' BY <1>4, <1>6, <1>8, AfterKept DEF Covers
<1> QED BY <1>2, <1>6, <1>8, <1>9 DEF Covers, After

\* one that settled a row,
LEMMA SettleView ==
    ASSUME TypeOK, StepInv, NEW t \in Settlers, Settle(t), OwnView(t)
    PROVE OwnView(t)'
<1>1. PICK k \in tx[t].held, r \in Row :
         /\ k \in RowId /\ rows[k].new.quote \in Quotes
         /\ r.state \in Outcome /\ r.quote = rows[k].new.quote
         /\ r.time = rows[k].new.time /\ WritesRow(t, k, r) /\ tx'[t].id = k
         /\ \/ quotes' = quotes
            \/ WritesQuote(t, rows[k].new.quote, 0) /\ Moves(t, "promoting")
  BY SettleDoes
<1>2. At(t, "settling") BY SettleDoes
<1> SUFFICES ASSUME NEW q \in Quotes, NEW i \in RowId, i \in Candidates(t, q)',
                    quotes'[q].by = t, ~Promoting(t, q)'
    PROVE Covers(quotes[q].new, i)'
  BY DEF OwnView, Candidates
<1>3. rows'[k].by = t /\ rows'[k].new = r BY <1>1 DEF WritesRow
<1>4. i # k BY <1>1, <1>3 DEF Candidates, Sees, Unsettled, Outcome
<1>5. rows'[i] = rows[i] BY <1>1, <1>4 DEF WritesRow
<1>6. i \in Candidates(t, q) BY <1>5 DEF Candidates
<1>7. quotes'[q] = quotes[q]
  <2>1. CASE quotes' = quotes BY <2>1
  <2>2. CASE WritesQuote(t, rows[k].new.quote, 0) /\ Moves(t, "promoting")
    <3>1. q # rows[k].new.quote BY <1>1, <1>3, <2>2 DEF Promoting, Moves, At
    <3> QED BY <2>2, <3>1 DEF WritesQuote
  <2> QED BY <1>1, <2>1, <2>2
<1>8. Covers(quotes[q].new, i) BY <1>2, <1>6, <1>7 DEF OwnView, Promoting, Pending, At
<1>9. quotes[q].new \in RowId
  BY <1>8, Fields, QuotesAssumption DEF RowId, Covers
<1>10. PICK d \in RowId : d = quotes[q].new BY <1>9
<1>11. \A j \in RowId : rows'[j].new.time = rows[j].new.time BY <1>1 DEF WritesRow
<1>12. After(d, i)' BY <1>8, <1>10, <1>11, AfterKept DEF Covers
<1> QED BY <1>7, <1>8, <1>10, <1>12 DEF Covers, After

\* and one that promoted a representative.
LEMMA PromoteView ==
    ASSUME TypeOK, StepInv, NEW t \in Settlers, Promote(t), OwnView(t)
    PROVE OwnView(t)'
<1> DEFINE k == rows[tx[t].id].new.quote
<1>1. At(t, "promoting") /\ tx[t].id \in RowId
  BY DEF Promote, StepInv, SettlerInv
<1>2. /\ k \in Quotes /\ rows' = rows
      /\ \/ Candidates(t, k) = {} /\ quotes' = quotes
         \/ \E i \in Candidates(t, k) :
              /\ i \in RowId /\ \A j \in Candidates(t, k) : After(i, j)
              /\ WritesQuote(t, k, i)
  BY <1>1, PromoteDoes
<1> SUFFICES ASSUME NEW q \in Quotes, NEW i \in RowId, i \in Candidates(t, q)',
                    quotes'[q].by = t
    PROVE Covers(quotes[q].new, i)'
  BY DEF OwnView, Candidates
<1>3. i \in Candidates(t, q) BY <1>2 DEF Candidates
<1>4. CASE q # k
  <2>1. quotes'[q] = quotes[q] BY <1>2, <1>4 DEF WritesQuote
  <2>2. Covers(quotes[q].new, i)
    BY <1>1, <1>3, <1>4, <2>1 DEF OwnView, Promoting, Pending, At
  <2> QED BY <1>2, <2>1, <2>2 DEF Covers, After
<1>5. CASE q = k
  <2>1. PICK d \in RowId : (\A j \in Candidates(t, k) : After(d, j)) /\ WritesQuote(t, k, d)
    BY <1>2, <1>3, <1>5
  <2>2. quotes'[q].new = d /\ d # 0 BY <1>5, <2>1 DEF WritesQuote, RowId
  <2>3. After(d, i) BY <1>3, <1>5, <2>1
  <2> QED BY <1>2, <2>2, <2>3 DEF Covers, After
<1> QED BY <1>4, <1>5

\* The row a logger inserted keeps its quote until the logger is done.
LEMMA InsertedStays ==
    ASSUME TypeOK, StepInv, NEW t \in Tx, Isolated(t), NEW u \in Loggers, Inserted(u),
           \/ u # t
           \/ BeginLog(t) \/ Insert(t) \/ Upsert(t) \/ Commit(t) \/ Rollback(t)
    PROVE Inserted(u)'
<1>0. u \in Tx /\ u # None BY QuotesAssumption DEF Tx
<1>1. CASE u # t
  <2> SUFFICES ASSUME NEW i \in RowId, rows'[i].by = u, ~Pending(u, i)'
      PROVE quotes'[rows'[i].new.quote].by = u
    BY DEF Inserted
  <2>1. rows'[i] = rows[i] /\ tx'[u] = tx[u] BY <1>0, <1>1 DEF Isolated
  <2>2. quotes[rows[i].new.quote].by = u BY <2>1 DEF Inserted, Pending, At
  <2>3. rows[i].new.quote \in Quotes BY Fields, RowFields
  <2>4. quotes'[rows[i].new.quote] = quotes[rows[i].new.quote]
    BY <1>0, <1>1, <2>2, <2>3 DEF Isolated
  <2> QED BY <2>1, <2>2, <2>4
<1>2. CASE u = t /\ BeginLog(u)
  <2>1. rows' = rows /\ quotes' = quotes /\ At(u, "idle") BY <1>2, BeginLogDoes
  <2> QED BY <2>1 DEF Inserted, Pending, At
<1>3. CASE u = t /\ Insert(u)
  <2>1. /\ Moves(u, "upserting") /\ tx'[u].id = next + 1 /\ quotes' = quotes
        /\ At(u, "logging")
    BY <1>3, InsertDoes
  <2>2. \A i \in RowId : i # next + 1 => rows'[i] = rows[i]
    BY <1>3, InsertDoes DEF WritesRow
  <2> QED BY <2>1, <2>2 DEF Inserted, Pending, At, Moves
<1>4. CASE u = t /\ Upsert(u)
  <2> DEFINE k == rows[tx[u].id].new.quote
  <2>1. At(u, "upserting") /\ tx[u].id \in RowId
    BY <1>4 DEF Upsert, StepInv, LoggerInv
  <2>2. PICK c : WritesQuote(u, k, c) BY <1>4, <2>1, UpsertDoes
  <2>3. rows' = rows BY <1>4, <2>1, UpsertDoes
  <2> SUFFICES ASSUME NEW i \in RowId, rows[i].by = u
      PROVE quotes'[rows[i].new.quote].by = u
    BY <2>3 DEF Inserted
  <2>4. rows[i].new.quote \in Quotes BY Fields, RowFields
  <2>5. CASE rows[i].new.quote = k BY <2>2, <2>5 DEF WritesQuote
  <2>6. CASE rows[i].new.quote # k
    <3>1. ~Pending(u, i) BY <2>6 DEF Pending
    <3>2. quotes[rows[i].new.quote].by = u BY <3>1 DEF Inserted
    <3> QED BY <2>2, <2>4, <2>6, <3>2 DEF WritesQuote
  <2> QED BY <2>5, <2>6
<1>5. CASE u = t /\ Commit(u)
  <2>1. \A i \in RowId : rows'[i].by # u BY <1>0, <1>5, CommitDoes
  <2> QED BY <2>1 DEF Inserted
<1>6. CASE u = t /\ Rollback(u)
  <2>1. \A i \in RowId : rows'[i].by # u BY <1>0, <1>6, RollbackDoes
  <2> QED BY <2>1 DEF Inserted
<1> QED BY <1>1, <1>2, <1>3, <1>4, <1>5, <1>6

-----------------------------------------------------------------------------
(* The commit *)

\* What a transaction commits covers what becomes visible with it.
LEMMA CommitCommitted ==
    ASSUME TypeOK, RowInv, StepInv, PointsInv, Committed, NEW t \in Tx, Commit(t),
           OwnView(t), t \in Loggers => Inserted(t)
    PROVE Committed'
<1>1. /\ At(t, "logging") \/ At(t, "settling")
      /\ \A i \in RowId : rows[i].by = t =>
           rows'[i].old = rows[i].new /\ rows'[i].new = rows[i].new
      /\ \A i \in RowId : rows[i].by # t => rows'[i] = rows[i]
      /\ \A q \in Quotes : quotes[q].by = t => quotes'[q].old = quotes[q].new
      /\ \A q \in Quotes : quotes[q].by # t => quotes'[q] = quotes[q]
  BY CommitDoes
<1>2. \A j \in RowId : rows'[j].new = rows[j].new BY <1>1
<1> SUFFICES ASSUME NEW i \in RowId, Unsettled(rows'[i].old), NEW q \in Quotes,
                    q = rows'[i].old.quote
    PROVE quotes'[q].old # 0 /\ After(quotes[q].old, i)'
  <2>1. \A i \in RowId : rows'[i].old.quote \in Quotes
    BY CommitDoes, RowFields DEF TypeOK, Versions
  <2> QED BY <2>1 DEF Committed, Covers, After
<1>3. Sees(t, rows[i]) = rows'[i].old BY <1>1 DEF Sees
<1>4. i \in Candidates(t, q) BY <1>3 DEF Candidates
<1>5. ~Pending(t, i) /\ ~Promoting(t, q) BY <1>1 DEF Pending, Promoting, At
<1>6. CASE quotes[q].by = t
  <2>1. Covers(quotes[q].new, i) BY <1>4, <1>5, <1>6 DEF OwnView
  <2>2. quotes[q].new \in RowId
    BY <2>1, Fields, QuotesAssumption DEF RowId, Covers
  <2>3. PICK d \in RowId : d = quotes[q].new BY <2>2
  <2>4. quotes'[q].old = d BY <1>1, <1>6, <2>3
  <2>5. After(d, i)' BY <1>2, <2>1, <2>3, AfterKept DEF Covers
  <2> QED BY <2>1, <2>3, <2>4, <2>5 DEF Covers, After
<1>7. CASE quotes[q].by # t
  <2>1. Unsettled(rows[i].old) /\ rows[i].old.quote = q
    <3>1. CASE rows[i].by # t BY <1>1, <3>1
    <3>2. CASE rows[i].by = t
      <4>1. rows[i].new.quote = q BY <1>1, <3>2
      <4>2. t \notin Loggers BY <1>5, <1>7, <3>2, <4>1 DEF Inserted
      <4>3. t \in Settlers BY <4>2 DEF Tx
      <4> QED BY <3>2, <4>1, <4>3, HeldIsOpen DEF Unsettled
    <3> QED BY <3>1, <3>2
  <2>2. Covers(quotes[q].old, i) BY <2>1 DEF Committed
  <2>3. quotes[q].old \in RowId
    BY <2>2, Fields, QuotesAssumption DEF RowId, Covers
  <2>4. PICK d \in RowId : d = quotes[q].old BY <2>3
  <2>5. quotes'[q].old = d BY <1>1, <1>7, <2>4
  <2>6. After(d, i)' BY <1>2, <2>2, <2>4, AfterKept DEF Covers
  <2> QED BY <2>2, <2>4, <2>5, <2>6 DEF Covers, After
<1> QED BY <1>6, <1>7

-----------------------------------------------------------------------------
(* The inductive invariant *)

\* In the initial state nothing is there.
LEMMA QuotesInit == Init => QuotesInv
<1> SUFFICES ASSUME Init PROVE QuotesInv OBVIOUS
<1>1. TypeOK BY TypeInit
<1>2. /\ \A i \in RowId : rows[i].by = None /\ rows[i].old.state = "absent"
      /\ \A q \in Quotes : quotes[q].by = None /\ quotes[q].old = 0 /\ quotes[q].new = 0
      /\ \A t \in Tx : tx[t].pc = "idle" /\ tx[t].held = {}
  BY NoRowTyped DEF Init, Stored, Idle
<1>3. RowInv BY <1>2 DEF RowInv, Outcome
<1>4. StepInv BY <1>2 DEF StepInv, LoggerInv, SettlerInv, At, Tx
<1>5. PointsInv BY <1>2 DEF PointsInv
<1>6. Committed BY <1>2 DEF Committed, Unsettled
<1>7. \A t \in Tx : OwnView(t) BY <1>2, QuotesAssumption DEF OwnView
<1>8. \A t \in Loggers : Inserted(t) BY <1>2, QuotesAssumption DEF Inserted, Tx
<1> QED BY <1>1, <1>3, <1>4, <1>5, <1>6, <1>7, <1>8 DEF QuotesInv

\* What is left to show of a step of t that commits nothing.
LEMMA QuotesStay ==
    ASSUME QuotesInv, NEW t \in Tx, TypeOK', RowInv', Isolated(t), SameOld, PointsInv',
           OwnView(t)', t \in Loggers => LoggerInv(t)' /\ Inserted(t)',
           t \in Settlers => SettlerInv(t)'
    PROVE QuotesInv'
<1>1. StepInv' BY OthersStay DEF StepInv, QuotesInv
<1>2. Committed' BY CommittedStays DEF QuotesInv
<1>3. \A u \in Tx : OwnView(u)' BY OthersView DEF QuotesInv
<1>4. \A u \in Loggers : Inserted(u)' BY InsertedStays DEF QuotesInv
<1> QED BY <1>1, <1>2, <1>3, <1>4 DEF QuotesInv

\* The steps of log_sports_predictions.
LEMMA LoggerKeeps ==
    ASSUME QuotesInv, NEW t \in Loggers, BeginLog(t) \/ Insert(t) \/ Upsert(t)
    PROVE QuotesInv'
<1>1. /\ TypeOK /\ RowInv /\ StepInv /\ PointsInv /\ Committed
      /\ t \in Tx /\ OwnView(t) /\ Inserted(t)
      /\ t \notin Settlers /\ t # None
  BY QuotesAssumption DEF QuotesInv, Tx
<1>2. LoggerInv(t)' BY <1>1, LoggerStays
<1>3. CASE BeginLog(t)
  <2>1. /\ TypeOK' /\ Moves(t, "logging") /\ At(t, "idle")
        /\ rows' = rows /\ quotes' = quotes /\ next' = next
    BY <1>1, <1>3, BeginLogDoes
  <2>2. RowInv' /\ Isolated(t) /\ SameOld BY <1>1, <2>1, QuietIsolated
  <2>3. PointsInv' BY <1>1, <2>1 DEF PointsInv
  <2>4. OwnView(t)' BY <1>1, <2>1, QuietView DEF At
  <2>5. Inserted(t)' BY <1>1, <1>3, <2>2, InsertedStays
  <2> QED BY <1>1, <1>2, <2>1, <2>2, <2>3, <2>4, <2>5, QuotesStay
<1>4. CASE Insert(t)
  <2>1. TypeOK' /\ quotes' = quotes BY <1>1, <1>4, InsertDoes
  <2>2. RowInv' /\ Isolated(t) /\ SameOld BY <1>1, <1>4, InsertIsolated
  <2>3. \A i \in RowId : rows[i].by = t => rows'[i].by = t
    BY <1>1, <1>4, InsertDoes DEF WritesRow
  <2>4. \A q \in Quotes : (quotes'[q].by = t /\ quotes'[q].new # 0) =>
          Sees(t, rows[quotes'[q].new]).state # "absent"
    BY <1>1, <2>1, PointsSeen
  <2>5. PointsInv' BY <1>1, <2>1, <2>2, <2>3, <2>4, PointsStay
  <2>6. OwnView(t)' BY <1>1, <1>4, InsertView
  <2>7. Inserted(t)' BY <1>1, <1>4, <2>2, InsertedStays
  <2> QED BY <1>1, <1>2, <2>1, <2>2, <2>5, <2>6, <2>7, QuotesStay
<1>5. CASE Upsert(t)
  <2> DEFINE n == tx[t].id
             k == rows[n].new.quote
             cur == quotes[k].new
             c == IF Wins(n, cur) THEN n ELSE cur
  <2>1. n \in RowId /\ rows[n].by = t
    BY <1>1, <1>5 DEF Upsert, StepInv, LoggerInv
  <2>2. /\ TypeOK' /\ k \in Quotes /\ Free(t, quotes[k]) /\ WritesQuote(t, k, c)
        /\ rows' = rows
    BY <1>1, <1>5, <2>1, UpsertDoes
  <2>3. RowInv' /\ Isolated(t) /\ SameOld BY <1>1, <1>5, <2>1, UpsertIsolated
  <2>4. rows[n].old.state = "absent" /\ rows[n].new.state = "unresolved"
    BY <1>1, <2>1, InsertedIsNew
  <2>5. Sees(t, rows[n]).state # "absent" BY <2>1, <2>4 DEF Sees
  <2>6. cur # 0 => Sees(t, rows[cur]).state # "absent"
    <3> SUFFICES ASSUME cur # 0 PROVE Sees(t, rows[cur]).state # "absent" OBVIOUS
    <3>1. CASE quotes[k].by = t BY <1>1, <2>2, <3>1, PointsSeen
    <3>2. CASE quotes[k].by # t
      <4>1. k \in Quotes /\ quotes[k].by = None BY <2>2, <3>2 DEF Free
      <4>2. cur = quotes[k].old /\ cur \in 0..MaxRows BY <1>1, <4>1, Fields DEF TypeOK
      <4>3. cur \in RowId BY <4>2, QuotesAssumption DEF RowId
      <4>4. rows[cur].old.state # "absent" BY <1>1, <4>1, <4>2 DEF PointsInv
      <4>5. rows[cur].by # t BY <1>1, <4>3, <4>4, InsertedIsNew
      <4> QED BY <4>4, <4>5 DEF Sees
    <3> QED BY <3>1, <3>2
  <2>7. \A q \in Quotes : (quotes'[q].by = t /\ quotes'[q].new # 0) =>
          Sees(t, rows[quotes'[q].new]).state # "absent"
    <3> SUFFICES ASSUME NEW q \in Quotes, quotes'[q].by = t, quotes'[q].new # 0
        PROVE Sees(t, rows[quotes'[q].new]).state # "absent"
      OBVIOUS
    <3>1. CASE q = k BY <2>2, <2>5, <2>6, <3>1 DEF WritesQuote
    <3>2. CASE q # k
      <4>1. quotes'[q] = quotes[q] BY <2>2, <3>2 DEF WritesQuote
      <4> QED BY <1>1, <4>1, PointsSeen
    <3> QED BY <3>1, <3>2
  <2>8. PointsInv' BY <1>1, <2>2, <2>3, <2>7, PointsStay
  <2>9. OwnView(t)' BY <1>1, <1>5, UpsertView
  <2>10. Inserted(t)' BY <1>1, <1>5, <2>3, InsertedStays
  <2> QED BY <1>1, <1>2, <2>2, <2>3, <2>8, <2>9, <2>10, QuotesStay
<1> QED BY <1>3, <1>4, <1>5

\* The steps of settle_sports_predictions that leave the tables alone.
LEMMA SettlerWaits ==
    ASSUME QuotesInv, NEW t \in Settlers,
           BeginSettle(t) \/ Skip(t) \/ Scanned(t) \/ Reference(t)
    PROVE QuotesInv'
<1>1. /\ TypeOK /\ RowInv /\ StepInv /\ PointsInv /\ Committed
      /\ t \in Tx /\ OwnView(t) /\ t \notin Loggers
  BY QuotesAssumption DEF QuotesInv, Tx
<1>2. SettlerInv(t)' BY <1>1, SettlerStays
<1>3. Reference(t) => tx[t].id \in RowId
  BY <1>1 DEF Reference, StepInv, SettlerInv
<1>4. /\ TypeOK' /\ \E step : Moves(t, step)
      /\ At(t, "idle") \/ At(t, "scanning") \/ At(t, "referencing")
      /\ rows' = rows /\ quotes' = quotes /\ next' = next
  BY <1>1, <1>3, BeginSettleDoes, SkipDoes, ScannedDoes, ReferenceDoes
<1>5. RowInv' /\ Isolated(t) /\ SameOld BY <1>1, <1>4, QuietIsolated
<1>6. PointsInv' BY <1>1, <1>4 DEF PointsInv
<1>7. OwnView(t)' BY <1>1, <1>4, QuietView DEF At
<1> QED BY <1>1, <1>2, <1>4, <1>5, <1>6, <1>7, QuotesStay

\* The steps of settle_sports_predictions that write.
LEMMA SettlerKeeps ==
    ASSUME QuotesInv, NEW t \in Settlers, Take(t) \/ Settle(t) \/ Promote(t)
    PROVE QuotesInv'
<1>1. /\ TypeOK /\ RowInv /\ StepInv /\ PointsInv /\ Committed
      /\ t \in Tx /\ OwnView(t) /\ t \notin Loggers
  BY QuotesAssumption DEF QuotesInv, Tx
<1>2. SettlerInv(t)' BY <1>1, SettlerStays
<1>3. CASE Take(t)
  <2>1. TypeOK' /\ quotes' = quotes BY <1>1, <1>3, TakeDoes
  <2>2. RowInv' /\ Isolated(t) /\ SameOld BY <1>1, <1>3, TakeIsolated
  <2>3. \A i \in RowId : rows[i].by = t => rows'[i].by = t
    BY <1>1, <1>3, TakeDoes DEF WritesRow
  <2>4. \A q \in Quotes : (quotes'[q].by = t /\ quotes'[q].new # 0) =>
          Sees(t, rows[quotes'[q].new]).state # "absent"
    BY <1>1, <2>1, PointsSeen
  <2>5. PointsInv' BY <1>1, <2>1, <2>2, <2>3, <2>4, PointsStay
  <2>6. OwnView(t)' BY <1>1, <1>3, TakeView
  <2> QED BY <1>1, <1>2, <2>1, <2>2, <2>5, <2>6, QuotesStay
<1>4. CASE Settle(t)
  <2>1. TypeOK' BY <1>1, <1>4, SettleDoes
  <2>2. RowInv' /\ Isolated(t) /\ SameOld BY <1>1, <1>4, SettleIsolated
  <2>3. PICK i \in RowId, r \in Row :
          /\ WritesRow(t, i, r)
          /\ quotes' = quotes \/ WritesQuote(t, rows[i].new.quote, 0)
    BY <1>1, <1>4, SettleDoes
  <2>4. \A j \in RowId : rows[j].by = t => rows'[j].by = t BY <2>3 DEF WritesRow
  <2>5. \A q \in Quotes : (quotes'[q].by = t /\ quotes'[q].new # 0) =>
          quotes'[q] = quotes[q]
    BY <2>3 DEF WritesQuote
  <2>6. \A q \in Quotes : (quotes'[q].by = t /\ quotes'[q].new # 0) =>
          Sees(t, rows[quotes'[q].new]).state # "absent"
    BY <1>1, <2>5, PointsSeen
  <2>7. PointsInv' BY <1>1, <2>1, <2>2, <2>4, <2>6, PointsStay
  <2>8. OwnView(t)' BY <1>1, <1>4, SettleView
  <2> QED BY <1>1, <1>2, <2>1, <2>2, <2>7, <2>8, QuotesStay
<1>5. CASE Promote(t)
  <2> DEFINE k == rows[tx[t].id].new.quote
  <2>1. tx[t].id \in RowId /\ quotes[k].by = t
    BY <1>1, <1>5 DEF Promote, StepInv, SettlerInv
  <2>2. /\ TypeOK' /\ rows' = rows /\ k \in Quotes
        /\ \/ quotes' = quotes
           \/ \E i \in Candidates(t, k) : WritesQuote(t, k, i)
    BY <1>1, <1>5, <2>1, PromoteDoes
  <2>3. RowInv' /\ Isolated(t) /\ SameOld BY <1>1, <1>5, <2>1, PromoteIsolated
  <2>4. \A i \in Candidates(t, k) : Sees(t, rows[i]).state # "absent"
    BY DEF Candidates, Unsettled
  <2>5. \A q \in Quotes : (quotes'[q].by = t /\ quotes'[q].new # 0) =>
          Sees(t, rows[quotes'[q].new]).state # "absent"
    <3> SUFFICES ASSUME NEW q \in Quotes, quotes'[q].by = t, quotes'[q].new # 0
        PROVE Sees(t, rows[quotes'[q].new]).state # "absent"
      OBVIOUS
    <3>1. quotes'[q] = quotes[q] \/ quotes'[q].new \in Candidates(t, k)
      BY <2>2 DEF WritesQuote
    <3> QED BY <1>1, <2>4, <3>1, PointsSeen
  <2>6. PointsInv' BY <1>1, <2>2, <2>3, <2>5, PointsStay
  <2>7. OwnView(t)' BY <1>1, <1>5, PromoteView
  <2> QED BY <1>1, <1>2, <2>2, <2>3, <2>6, <2>7, QuotesStay
<1> QED BY <1>3, <1>4, <1>5

\* The end of a transaction.
LEMMA EndKeeps ==
    ASSUME QuotesInv, NEW t \in Tx, Commit(t) \/ Rollback(t)
    PROVE QuotesInv'
<1>1. /\ TypeOK /\ RowInv /\ StepInv /\ PointsInv /\ Committed /\ OwnView(t)
      /\ t \in Loggers => Inserted(t)
      /\ t # None
  BY QuotesAssumption DEF QuotesInv
<1>2. (t \in Loggers => LoggerInv(t)') /\ (t \in Settlers => SettlerInv(t)')
  BY <1>1, LoggerStays, SettlerStays
<1>3. \A q \in Quotes : quotes'[q].by # t
  BY <1>1, CommitDoes, RollbackDoes
<1>4. OwnView(t)' BY <1>3, EndView
<1>5. CASE Commit(t)
  <2>1. TypeOK' BY <1>1, <1>5, CommitDoes
  <2>2. RowInv' /\ Isolated(t) BY <1>1, <1>5, CommitIsolated
  <2>3. StepInv' BY <1>1, <1>2, <2>2, OthersStay DEF StepInv
  <2>4. PointsInv' BY <1>1, <1>5, CommitPoints
  <2>5. Committed' BY <1>1, <1>5, CommitCommitted
  <2>6. \A u \in Tx : OwnView(u)'
    BY <1>1, <1>4, <1>5, <2>1, <2>2, OthersView DEF QuotesInv
  <2>7. \A u \in Loggers : Inserted(u)'
    BY <1>1, <1>5, <2>2, InsertedStays DEF QuotesInv
  <2> QED BY <2>1, <2>2, <2>3, <2>4, <2>5, <2>6, <2>7 DEF QuotesInv
<1>6. CASE Rollback(t)
  <2>1. TypeOK' BY <1>1, <1>6, RollbackDoes
  <2>2. RowInv' /\ Isolated(t) /\ SameOld BY <1>1, <1>6, RollbackIsolated
  <2>3. PointsInv' BY <1>1, <1>6, RollbackPoints
  <2>4. t \in Loggers => Inserted(t)' BY <1>1, <1>6, <2>2, InsertedStays
  <2> QED BY <1>1, <1>2, <1>4, <2>1, <2>2, <2>3, <2>4, QuotesStay
<1> QED BY <1>5, <1>6

\* Every step preserves the invariant.
LEMMA QuotesNext == QuotesInv /\ [Next]_vars => QuotesInv'
<1> SUFFICES ASSUME QuotesInv, [Next]_vars PROVE QuotesInv' OBVIOUS
<1>1. CASE UNCHANGED vars
  <2>1. rows' = rows /\ quotes' = quotes /\ next' = next /\ tx' = tx /\ overlap' = overlap
    BY <1>1 DEF vars
  <2>2. TypeOK' BY <2>1 DEF QuotesInv, TypeOK
  <2>3. RowInv' BY <2>1 DEF QuotesInv, RowInv
  <2>4. StepInv' BY <2>1 DEF QuotesInv, StepInv, LoggerInv, SettlerInv, At
  <2>5. PointsInv' BY <2>1 DEF QuotesInv, PointsInv
  <2>6. Committed' BY <2>1 DEF QuotesInv, Committed, Covers, After
  <2>7. ASSUME NEW t \in Tx PROVE OwnView(t)'
    BY <2>1 DEF QuotesInv, OwnView, Candidates, Promoting, Pending, Covers, After, At
  <2>8. ASSUME NEW t \in Loggers PROVE Inserted(t)'
    BY <2>1 DEF QuotesInv, Inserted, Pending, At
  <2> QED BY <2>2, <2>3, <2>4, <2>5, <2>6, <2>7, <2>8 DEF QuotesInv
<1>2. CASE \E t \in Loggers : BeginLog(t) \/ Insert(t) \/ Upsert(t)
  BY <1>2, LoggerKeeps
<1>3. CASE \E t \in Settlers :
         BeginSettle(t) \/ Take(t) \/ Skip(t) \/ Scanned(t) \/ Settle(t) \/ Promote(t)
         \/ Reference(t)
  BY <1>3, SettlerWaits, SettlerKeeps
<1>4. CASE \E t \in Tx : Commit(t) \/ Rollback(t)
  BY <1>4, EndKeeps
<1> QED BY <1>1, <1>2, <1>3, <1>4 DEF Next

\* The invariant holds throughout.
LEMMA QuotesAlways == Spec => []QuotesInv
  BY QuotesInit, QuotesNext, PTL DEF Spec

-----------------------------------------------------------------------------
(* What it means for the board *)

\* The log and the projection stay well formed, and what no open transaction has
\* written is committed.
THEOREM TypeCorrect == Spec => []TypeOK
<1>1. QuotesInv => TypeOK BY DEF QuotesInv
<1> QED BY <1>1, QuotesAlways, PTL

\* The triggers of migration 0014 lose no quote: whatever the transactions of
\* log_sports_predictions and settle_sports_predictions interleave, wait for or
\* give up, the board shows every open snapshot or a newer one of its quote.
THEOREM QuotesAreKept == Spec => []NoQuoteIsLost
<1>1. QuotesInv => NoQuoteIsLost
  BY DEF QuotesInv, Committed, Covers, NoQuoteIsLost, Open, Shown
<1> QED BY <1>1, QuotesAlways, PTL

\* settle_sports_predictions grades a snapshot once: a graded row is held by
\* nobody, and only an open one is taken.
THEOREM OutcomesAreFinal == Spec => OutcomeIsFinal
<1>1. ASSUME QuotesInv, [Next]_vars, NEW i \in RowId, rows[i].old.state \in Outcome
      PROVE rows'[i].old = rows[i].old
  <2>1. TypeOK /\ RowInv /\ StepInv BY <1>1 DEF QuotesInv
  <2>2. rows[i].by = None BY <1>1, <2>1 DEF RowInv
  <2>3. CASE UNCHANGED vars BY <2>3 DEF vars
  <2>4. CASE \E t \in Loggers : BeginLog(t) \/ Insert(t) \/ Upsert(t)
    <3>1. PICK t \in Loggers : BeginLog(t) \/ Insert(t) \/ Upsert(t) BY <2>4
    <3>2. Upsert(t) => tx[t].id \in RowId BY <2>1 DEF StepInv, LoggerInv, Upsert
    <3>3. BeginLog(t) => rows' = rows BY DEF BeginLog
    <3> QED BY <2>1, <3>1, <3>2, <3>3, InsertIsolated, UpsertIsolated DEF SameOld
  <2>5. CASE \E t \in Settlers :
           BeginSettle(t) \/ Take(t) \/ Skip(t) \/ Scanned(t) \/ Settle(t) \/ Promote(t)
           \/ Reference(t)
    <3>1. PICK t \in Settlers :
            BeginSettle(t) \/ Take(t) \/ Skip(t) \/ Scanned(t) \/ Settle(t) \/ Promote(t)
            \/ Reference(t)
      BY <2>5
    <3>2. BeginSettle(t) \/ Skip(t) \/ Scanned(t) \/ Promote(t) \/ Reference(t) => rows' = rows
      BY DEF BeginSettle, Skip, Scanned, Promote, Reference
    <3> QED BY <2>1, <3>1, <3>2, TakeIsolated, SettleIsolated DEF SameOld
  <2>6. CASE \E t \in Tx : Commit(t) \/ Rollback(t)
    <3>1. PICK t \in Tx : Commit(t) \/ Rollback(t) BY <2>6
    <3>2. t # None BY QuotesAssumption
    <3> QED BY <2>1, <2>2, <3>1, <3>2, CommitDoes, RollbackDoes
  <2> QED BY <1>1, <2>3, <2>4, <2>5, <2>6 DEF Next
<1>2. QuotesInv /\ [Next]_vars =>
        [\A i \in RowId : rows[i].old.state \in Outcome => rows'[i].old = rows[i].old]_vars
  BY <1>1
<1> QED BY <1>2, QuotesAlways, PTL DEF Spec, OutcomeIsFinal

-----------------------------------------------------------------------------
(* The projection is exact as long as no two settlements overlap *)

\* A transaction that has ended has written nothing.
Ended(t) == At(t, "idle") =>
    (\A i \in RowId : rows[i].by # t) /\ (\A q \in Quotes : quotes[q].by # t)

\* A logger leaves a quote as it is or points it at a row of its own.
LoggerQuotes(t) == \A q \in Quotes : quotes[q].by = t =>
    \/ quotes[q].new = quotes[q].old
    \/ /\ quotes[q].new \in RowId /\ rows[quotes[q].new].by = t
       /\ rows[quotes[q].new].new.quote = q

\* One settlement is open at a time.
Sole == \A s, t \in Settlers : ~At(s, "idle") /\ ~At(t, "idle") => s = t

\* A quote shows an open snapshot of its own.
ShowsOpen == \A q \in Quotes : quotes[q].old # 0 =>
    Unsettled(rows[quotes[q].old].old) /\ rows[quotes[q].old].old.quote = q

\* A quote a settlement has written shows one that the settlement sees open.
OwnPoints(t) == \A q \in Quotes :
    quotes[q].by = t /\ quotes[q].new # 0 => quotes[q].new \in Candidates(t, q)

\* No quote that a settlement sees shows a snapshot it has graded.
GradedGone(t) == \A i \in RowId : rows[i].by = t /\ rows[i].new.state \in Outcome =>
    Sees(t, quotes[rows[i].new.quote]) # i

SoleInv == Sole /\ ShowsOpen /\ \A t \in Settlers : OwnPoints(t) /\ GradedGone(t)

ExactInv ==
    /\ \A t \in Tx : Ended(t)
    /\ \A t \in Loggers : LoggerQuotes(t)
    /\ ~overlap => SoleInv

\* What quotes point at is a row.
LEMMA ShownRow ==
    ASSUME TypeOK, NEW q \in Quotes
    PROVE /\ quotes[q].old # 0 => quotes[q].old \in RowId
          /\ quotes[q].new # 0 => quotes[q].new \in RowId
<1>1. quotes[q].old \in 0..MaxRows /\ quotes[q].new \in 0..MaxRows BY Fields
<1> QED BY <1>1, QuotesAssumption DEF RowId

\* A transaction goes on, or it ends with nothing left.
LEMMA EndedStays ==
    ASSUME NEW t \in Tx, Isolated(t), \A u \in Tx : Ended(u),
           \/ tx'[t].pc # "idle"
           \/ (\A i \in RowId : rows'[i].by # t) /\ (\A q \in Quotes : quotes'[q].by # t)
    PROVE \A u \in Tx : Ended(u)'
<1> TAKE u \in Tx
<1>1. CASE u = t BY <1>1 DEF Ended, At
<1>2. CASE u # t
  <2>1. tx'[u] = tx[u] BY <1>2 DEF Isolated
  <2>2. u # None BY QuotesAssumption
  <2>3. \A i \in RowId : rows'[i].by = u => rows[i].by = u BY <1>2, <2>2 DEF Isolated
  <2>4. \A q \in Quotes : quotes'[q].by = u => quotes[q].by = u BY <1>2, <2>2 DEF Isolated
  <2> QED BY <2>1, <2>3, <2>4 DEF Ended, At
<1> QED BY <1>1, <1>2

\* The steps of t keep what holds of the quotes of another logger.
LEMMA LoggerQuotesStay ==
    ASSUME NEW t \in Tx, Isolated(t), NEW u \in Loggers, u # t, LoggerQuotes(u)
    PROVE LoggerQuotes(u)'
<1>1. u # None /\ u \in Tx BY QuotesAssumption DEF Tx
<1> SUFFICES ASSUME NEW q \in Quotes, quotes'[q].by = u
    PROVE LoggerQuotes(u)!(q)'
  BY DEF LoggerQuotes
<1>2. quotes'[q] = quotes[q] BY <1>1 DEF Isolated
<1>3. \A i \in RowId : rows[i].by = u => rows'[i] = rows[i] BY <1>1 DEF Isolated
<1> QED BY <1>2, <1>3 DEF LoggerQuotes

\* Without a commit every quote shows what it showed.
LEMMA ShowsOpenStays ==
    ASSUME TypeOK, SameOld, ShowsOpen PROVE ShowsOpen'
  BY ShownRow DEF ShowsOpen, SameOld

\* While nothing is committed nor written, a settlement's view stays.
LEMMA SoleQuiet ==
    ASSUME NEW t \in Tx, rows' = rows, quotes' = quotes, OwnPoints(t), GradedGone(t)
    PROVE OwnPoints(t)' /\ GradedGone(t)'
  BY DEF OwnPoints, GradedGone, Candidates, Sees

\* A logger's step keeps the view of the settlement.
LEMMA SettlementUndisturbed ==
    ASSUME TypeOK, TypeOK', RowInv, NEW u \in Loggers, Isolated(u), SameOld \/ Commit(u),
           LoggerQuotes(u), NEW t \in Settlers, OwnPoints(t), GradedGone(t)
    PROVE OwnPoints(t)' /\ GradedGone(t)'
<1>1. t # None /\ t # u /\ t \in Tx /\ u \in Tx BY QuotesAssumption DEF Tx
<1>2. \A i \in RowId : /\ rows[i].by = t => rows'[i] = rows[i]
                       /\ rows'[i].by = t => rows'[i] = rows[i]
  BY <1>1 DEF Isolated
<1>3. \A q \in Quotes : /\ quotes[q].by = t => quotes'[q] = quotes[q]
                        /\ quotes'[q].by = t => quotes'[q] = quotes[q]
  BY <1>1 DEF Isolated
<1>4. ASSUME NEW i \in RowId, rows[i].old.state = "unresolved"
      PROVE  rows'[i].old = rows[i].old
  <2>1. CASE SameOld BY <2>1 DEF SameOld
  <2>2. CASE Commit(u)
    <3>1. rows[i].by # u BY <1>4, InsertedIsNew
    <3> QED BY <1>1, <2>2, <3>1, CommitDoes
  <2> QED BY <2>1, <2>2
<1>5. OwnPoints(t)'
  <2> SUFFICES ASSUME NEW q \in Quotes, quotes'[q].by = t, quotes'[q].new # 0
      PROVE quotes'[q].new \in Candidates(t, q)'
    BY DEF OwnPoints
  <2>1. quotes'[q] = quotes[q] BY <1>3
  <2>2. PICK c \in RowId : c = quotes[q].new BY <2>1, ShownRow
  <2>3. Unsettled(Sees(t, rows[c])) /\ Sees(t, rows[c]).quote = q
    BY <2>1, <2>2 DEF OwnPoints, Candidates
  <2>4. Sees(t, rows'[c]) = Sees(t, rows[c])
    <3>1. CASE rows[c].by = t BY <1>2, <3>1
    <3>2. CASE rows[c].by # t
      <4>1. rows'[c].by # t BY <1>2, <3>2
      <4>2. rows[c].old.state = "unresolved" BY <2>3, <3>2 DEF Sees, Unsettled
      <4> QED BY <1>4, <3>2, <4>1, <4>2 DEF Sees
    <3> QED BY <3>1, <3>2
  <2> QED BY <2>1, <2>2, <2>3, <2>4 DEF Candidates
<1>6. GradedGone(t)'
  <2> SUFFICES ASSUME NEW i \in RowId, rows'[i].by = t, rows'[i].new.state \in Outcome
      PROVE Sees(t, quotes'[rows'[i].new.quote]) # i
    BY DEF GradedGone
  <2>1. rows'[i] = rows[i] /\ rows[i].by = t BY <1>2
  <2> DEFINE q == rows[i].new.quote
  <2>2. q \in Quotes BY Fields, RowFields
  <2>3. Sees(t, quotes[q]) # i BY <2>1 DEF GradedGone
  <2>4. CASE quotes[q].by = t BY <1>3, <2>1, <2>2, <2>3, <2>4
  <2>5. CASE quotes[q].by # t
    <3>1. quotes'[q].by # t /\ quotes[q].old # i BY <1>3, <2>2, <2>3, <2>5 DEF Sees
    <3>2. quotes'[q].old # i
      <4>1. CASE SameOld BY <2>2, <3>1, <4>1 DEF SameOld
      <4>2. CASE Commit(u) /\ quotes[q].by # u BY <1>1, <2>2, <3>1, <4>2, CommitDoes
      <4>3. CASE Commit(u) /\ quotes[q].by = u
        <5>1. quotes'[q].old = quotes[q].new BY <1>1, <2>2, <4>3, CommitDoes
        <5>2. quotes[q].new # i BY <1>1, <2>1, <2>2, <3>1, <4>3 DEF LoggerQuotes
        <5> QED BY <5>1, <5>2
      <4> QED BY <4>1, <4>2, <4>3
    <3> QED BY <2>1, <3>1, <3>2 DEF Sees
  <2> QED BY <2>4, <2>5
<1> QED BY <1>5, <1>6

\* No other settlement begins while one is open.
LEMMA SoleStays ==
    ASSUME Sole, NEW t \in Tx, Isolated(t), t \in Settlers => ~At(t, "idle"),
           t \in Loggers => t \notin Settlers
    PROVE Sole'
<1>1. \A s \in Settlers : s # t => tx'[s] = tx[s] BY DEF Isolated, Tx
<1> QED BY <1>1 DEF Sole, At, Tx

\* A settlement that has ended has no view of its own.
LEMMA IdleView ==
    ASSUME NEW t \in Settlers, At(t, "idle"), Ended(t)
    PROVE OwnPoints(t) /\ GradedGone(t)
  BY DEF Ended, OwnPoints, GradedGone

\* The steps of a settlement that is open alone.
LEMMA SoleSettles ==
    ASSUME QuotesInv, SoleInv, NEW t \in Settlers, Isolated(t), ~At(t, "idle"),
           \A u \in Tx : Ended(u), \A u \in Tx : Ended(u)', ShowsOpen',
           OwnPoints(t)', GradedGone(t)'
    PROVE SoleInv'
<1>1. t \in Tx /\ t \notin Loggers BY QuotesAssumption DEF Tx
<1>2. Sole' BY <1>1, SoleStays DEF SoleInv
<1>3. ASSUME NEW s \in Settlers, s # t PROVE OwnPoints(s)' /\ GradedGone(s)'
  <2>1. At(s, "idle") BY <1>3 DEF SoleInv, Sole
  <2>2. At(s, "idle")' BY <1>3, <2>1 DEF Isolated, At, Tx
  <2>3. Ended(s)' BY DEF Tx
  <2> QED BY <2>2, <2>3 DEF Ended, OwnPoints, GradedGone
<1> QED BY <1>2, <1>3 DEF SoleInv

\* Locking a candidate changes nothing that anybody sees.
LEMMA TakeExact ==
    ASSUME TypeOK, NEW t \in Settlers, Take(t), OwnPoints(t), GradedGone(t)
    PROVE OwnPoints(t)' /\ GradedGone(t)'
<1>1. PICK k \in RowId : /\ Free(t, rows[k]) /\ Unsettled(rows[k].old)
                         /\ WritesRow(t, k, rows[k].new)
  BY TakeDoes
<1>2. quotes' = quotes /\ t # None BY TakeDoes, QuotesAssumption DEF Tx
<1>3. \A j \in RowId : Sees(t, rows'[j]) = Sees(t, rows[j]) /\ rows'[j].new = rows[j].new
  BY <1>1, <1>2 DEF WritesRow, Free, Sees, TypeOK
<1>4. \A q \in Quotes : Candidates(t, q)' = Candidates(t, q)
  BY <1>3 DEF Candidates
<1>5. OwnPoints(t)' BY <1>2, <1>4 DEF OwnPoints
<1>6. \A j \in RowId : rows'[j].by = t /\ rows'[j].new.state \in Outcome => rows[j].by = t
  BY <1>1, <1>2 DEF WritesRow, Free, TypeOK, Unsettled, Outcome
<1>7. GradedGone(t)' BY <1>2, <1>3, <1>6 DEF GradedGone
<1> QED BY <1>5, <1>7

\* Grading a snapshot takes it from the quote that shows it.
LEMMA SettleExact ==
    ASSUME TypeOK, StepInv, NEW t \in Settlers, Settle(t), OwnPoints(t), GradedGone(t)
    PROVE OwnPoints(t)' /\ GradedGone(t)'
<1>1. PICK k \in tx[t].held, r \in Row :
         /\ k \in RowId /\ rows[k].new.quote \in Quotes /\ Unsettled(rows[k].new)
         /\ r.state \in Outcome /\ r.quote = rows[k].new.quote /\ WritesRow(t, k, r)
         /\ \/ ~Owned(t, k) /\ quotes' = quotes
            \/ /\ Owned(t, k) /\ Free(t, quotes[rows[k].new.quote])
               /\ WritesQuote(t, rows[k].new.quote, 0)
  BY SettleDoes
<1> DEFINE q == rows[k].new.quote
<1>2. rows[k].by = t /\ rows'[k].by = t /\ rows'[k].new = r
  BY <1>1 DEF StepInv, SettlerInv, WritesRow
<1>3. \A j \in RowId : j # k => rows'[j] = rows[j] BY <1>1 DEF WritesRow
<1>4. \A p \in Quotes : \/ quotes'[p] = quotes[p]
                        \/ quotes'[p].by = t /\ quotes'[p].new = 0
  BY <1>1 DEF WritesQuote
<1>5. Sees(t, quotes'[q]) # k
  BY <1>1 DEF Owned, Sees, WritesQuote, RowId
<1>6. OwnPoints(t)'
  <2> SUFFICES ASSUME NEW p \in Quotes, quotes'[p].by = t, quotes'[p].new # 0
      PROVE quotes'[p].new \in Candidates(t, p)'
    BY DEF OwnPoints
  <2>1. quotes'[p] = quotes[p] /\ quotes[p].new \in Candidates(t, p)
    BY <1>4 DEF OwnPoints
  <2>2. quotes[p].new # k
    <3> SUFFICES ASSUME quotes[p].new = k PROVE FALSE OBVIOUS
    <3>1. Sees(t, rows[k]).quote = p BY <2>1 DEF Candidates
    <3>2. p = q BY <1>2, <3>1 DEF Sees
    <3>3. Sees(t, quotes'[q]) = k BY <2>1, <3>2 DEF Sees
    <3> QED BY <1>5, <3>3
  <2>3. rows'[quotes[p].new] = rows[quotes[p].new] BY <1>3, <2>1, <2>2 DEF Candidates
  <2> QED BY <2>1, <2>3 DEF Candidates
<1>7. GradedGone(t)'
  <2> SUFFICES ASSUME NEW j \in RowId, rows'[j].by = t, rows'[j].new.state \in Outcome
      PROVE Sees(t, quotes'[rows'[j].new.quote]) # j
    BY DEF GradedGone
  <2>1. CASE j = k BY <1>1, <1>2, <1>5, <2>1
  <2>2. CASE j # k
    <3>1. rows'[j] = rows[j] BY <1>3, <2>2
    <3>2. Sees(t, quotes[rows[j].new.quote]) # j BY <3>1 DEF GradedGone
    <3>3. rows[j].new.quote \in Quotes /\ j # 0 BY Fields, RowFields DEF RowId
    <3> QED BY <1>4, <3>1, <3>2, <3>3 DEF Sees
  <2> QED BY <2>1, <2>2
<1> QED BY <1>6, <1>7

\* A promoted snapshot is one the settlement sees open.
LEMMA PromoteExact ==
    ASSUME TypeOK, NEW t \in Settlers, Promote(t), tx[t].id \in RowId,
           OwnPoints(t), GradedGone(t)
    PROVE OwnPoints(t)' /\ GradedGone(t)'
<1> DEFINE k == rows[tx[t].id].new.quote
<1>1. /\ k \in Quotes /\ rows' = rows
      /\ \/ quotes' = quotes
         \/ \E i \in Candidates(t, k) : WritesQuote(t, k, i)
  BY PromoteDoes
<1> HIDE DEF k
<1>2. \A p \in Quotes : \/ quotes'[p] = quotes[p]
                        \/ quotes'[p].by = t /\ quotes'[p].new \in Candidates(t, p)
  BY <1>1 DEF WritesQuote
<1>3. \A p \in Quotes : Candidates(t, p)' = Candidates(t, p)
  BY <1>1 DEF Candidates, Sees
<1>4. OwnPoints(t)' BY <1>2, <1>3 DEF OwnPoints
<1>5. GradedGone(t)'
  <2> SUFFICES ASSUME NEW j \in RowId, rows[j].by = t, rows[j].new.state \in Outcome
      PROVE Sees(t, quotes'[rows[j].new.quote]) # j
    BY <1>1 DEF GradedGone
  <2>1. rows[j].new.quote \in Quotes BY Fields, RowFields
  <2>2. Sees(t, quotes[rows[j].new.quote]) # j BY DEF GradedGone
  <2>3. j \notin Candidates(t, rows[j].new.quote)
    BY DEF Candidates, Sees, Unsettled, Outcome
  <2> QED BY <1>2, <2>1, <2>2, <2>3 DEF Sees
<1> QED BY <1>4, <1>5

\* What a commit publishes is open, and what it grades is shown by no quote.
LEMMA CommitShows ==
    ASSUME TypeOK, RowInv, NEW t \in Tx, Commit(t), ShowsOpen,
           t \in Loggers => LoggerQuotes(t),
           t \in Settlers => OwnPoints(t) /\ GradedGone(t)
    PROVE ShowsOpen'
<1>1. /\ \A i \in RowId : rows[i].by = t => rows'[i].old = rows[i].new
      /\ \A i \in RowId : rows[i].by # t => rows'[i] = rows[i]
      /\ \A q \in Quotes : quotes[q].by = t => quotes'[q].old = quotes[q].new
      /\ \A q \in Quotes : quotes[q].by # t => quotes'[q] = quotes[q]
  BY CommitDoes
<1>2. \A i \in RowId : rows'[i].old = Sees(t, rows[i]) BY <1>1 DEF Sees
<1>3. ASSUME NEW q \in Quotes, quotes[q].old # 0, Sees(t, quotes[q]) = quotes[q].old
      PROVE  LET c == quotes[q].old IN
             Unsettled(rows'[c].old) /\ rows'[c].old.quote = q
  <2>1. PICK c \in RowId : c = quotes[q].old BY <1>3, ShownRow
  <2>2. rows[c].old.state = "unresolved" /\ rows[c].old.quote = q
    BY <1>3, <2>1 DEF ShowsOpen, Unsettled
  <2>3. CASE rows[c].by # t BY <1>1, <2>1, <2>2, <2>3 DEF Unsettled
  <2>4. CASE rows[c].by = t
    <3>1. t \in Settlers BY <2>2, <2>4, InsertedIsNew DEF Tx
    <3>2. rows[c].new.quote = q /\ rows[c].new.state \in State \ {"absent"}
      BY <2>2, <2>4, <3>1, HeldIsOpen, Fields, RowFields
    <3>3. rows[c].new.state \notin Outcome
      BY <1>3, <2>1, <2>4, <3>1, <3>2 DEF GradedGone
    <3> QED BY <1>1, <2>1, <2>4, <3>2, <3>3 DEF Unsettled, State
  <2> QED BY <2>3, <2>4
<1> SUFFICES ASSUME NEW q \in Quotes, quotes'[q].old # 0
    PROVE LET c == quotes'[q].old IN
          Unsettled(rows'[c].old) /\ rows'[c].old.quote = q
  BY DEF ShowsOpen
<1>4. CASE quotes[q].by # t BY <1>1, <1>3, <1>4 DEF Sees
<1>5. CASE quotes[q].by = t /\ quotes[q].new = quotes[q].old
  BY <1>1, <1>3, <1>5 DEF Sees
<1>6. CASE quotes[q].by = t /\ quotes[q].new # quotes[q].old /\ t \in Loggers
  <2>1. PICK c \in RowId : /\ c = quotes[q].new /\ rows[c].by = t
                           /\ rows[c].new.quote = q
    BY <1>6 DEF LoggerQuotes
  <2>2. rows[c].new.state = "unresolved" BY <1>6, <2>1, InsertedIsNew
  <2> QED BY <1>1, <1>6, <2>1, <2>2 DEF Unsettled
<1>7. CASE quotes[q].by = t /\ t \in Settlers
  <2>1. quotes[q].new \in Candidates(t, q) BY <1>1, <1>7 DEF OwnPoints
  <2> QED BY <1>1, <1>2, <1>7, <2>1 DEF Candidates
<1> QED BY <1>4, <1>5, <1>6, <1>7 DEF Tx

\* The steps of log_sports_predictions keep the projection exact.
LEMMA LoggerExact ==
    ASSUME QuotesInv, QuotesInv', ExactInv, NEW t \in Loggers,
           BeginLog(t) \/ Insert(t) \/ Upsert(t)
    PROVE ExactInv'
<1>1. /\ TypeOK /\ RowInv /\ StepInv /\ t \in Tx /\ t # None /\ t \notin Settlers
      /\ LoggerQuotes(t) /\ \A u \in Tx : Ended(u)
  BY QuotesAssumption DEF QuotesInv, ExactInv, Tx
<1>2. Upsert(t) => tx[t].id \in RowId BY <1>1 DEF Upsert, StepInv, LoggerInv
<1>o. overlap' = overlap BY DEF BeginLog, Insert, Upsert
<1>3. Isolated(t) /\ SameOld /\ tx'[t].pc # "idle"
  <2>1. CASE BeginLog(t)
    BY <1>1, <2>1, BeginLogDoes, QuietIsolated DEF Moves
  <2>2. CASE Insert(t)
    BY <1>1, <2>2, InsertDoes, InsertIsolated DEF Moves
  <2>3. CASE Upsert(t)
    BY <1>1, <1>2, <2>3, UpsertDoes, UpsertIsolated DEF Moves
  <2> QED BY <2>1, <2>2, <2>3
<1>4. \A u \in Tx : Ended(u)' BY <1>1, <1>3, EndedStays
<1>5. LoggerQuotes(t)'
  <2>1. CASE BeginLog(t) BY <1>1, <2>1, BeginLogDoes DEF LoggerQuotes
  <2>2. CASE Insert(t)
    <3>1. PICK r \in Row : WritesRow(t, next + 1, r) BY <1>1, <2>2, InsertDoes
    <3>2. rows[next + 1].by = None /\ quotes' = quotes
      BY <1>1, <2>2, InsertDoes DEF RowInv, TypeOK
    <3>3. \A i \in RowId : rows[i].by = t => rows'[i] = rows[i]
      BY <1>1, <3>1, <3>2 DEF WritesRow
    <3> QED BY <1>1, <3>2, <3>3 DEF LoggerQuotes
  <2>3. CASE Upsert(t)
    <3> DEFINE n == tx[t].id
               k == rows[n].new.quote
               cur == quotes[k].new
               c == IF Wins(n, cur) THEN n ELSE cur
    <3>1. n \in RowId /\ rows[n].by = t
      BY <1>1, <2>3 DEF Upsert, StepInv, LoggerInv
    <3>2. k \in Quotes /\ Free(t, quotes[k]) /\ WritesQuote(t, k, c) /\ rows' = rows
      BY <1>1, <2>3, <3>1, UpsertDoes
    <3> c = n \/ c = cur OBVIOUS
    <3> HIDE DEF c, cur
    <3>3. quotes[k].by # t => cur = quotes[k].old
      <4>1. \A q \in Quotes : quotes[q].by = None => quotes[q].new = quotes[q].old
        BY <1>1 DEF TypeOK
      <4> QED BY <3>2, <4>1 DEF Free, cur
    <3>4. \/ c = n
          \/ c = quotes[k].old
          \/ c \in RowId /\ rows[c].by = t /\ rows[c].new.quote = k
      <4>1. quotes[k].by = t => \/ cur = quotes[k].old
                                \/ cur \in RowId /\ rows[cur].by = t /\ rows[cur].new.quote = k
        BY <1>1, <3>2 DEF LoggerQuotes, cur
      <4> QED BY <3>3, <4>1
    <3> SUFFICES ASSUME NEW q \in Quotes, quotes'[q].by = t
        PROVE LoggerQuotes(t)!(q)'
      BY DEF LoggerQuotes
    <3>5. CASE q = k BY <3>1, <3>2, <3>4, <3>5 DEF WritesQuote
    <3>6. CASE q # k
      <4>1. quotes'[q] = quotes[q] BY <3>2, <3>6 DEF WritesQuote
      <4> QED BY <1>1, <3>2, <4>1 DEF LoggerQuotes
    <3> QED BY <3>5, <3>6
  <2> QED BY <2>1, <2>2, <2>3
<1>6. \A u \in Loggers : LoggerQuotes(u)'
  BY <1>1, <1>3, <1>5, LoggerQuotesStay DEF ExactInv
<1>7. ASSUME ~overlap PROVE SoleInv'
  <2>1. SoleInv BY <1>7 DEF ExactInv
  <2>2. Sole' BY <1>1, <1>3, <2>1, SoleStays DEF SoleInv
  <2>3. ShowsOpen' BY <1>1, <1>3, <2>1, ShowsOpenStays DEF SoleInv
  <2>4. \A s \in Settlers : OwnPoints(s)' /\ GradedGone(s)'
    BY <1>1, <1>3, <2>1, SettlementUndisturbed DEF SoleInv, QuotesInv
  <2> QED BY <2>2, <2>3, <2>4 DEF SoleInv
<1> QED BY <1>o, <1>4, <1>6, <1>7 DEF ExactInv

\* So does the beginning of a settlement, if it is the only one,
LEMMA BeginExact ==
    ASSUME QuotesInv, QuotesInv', ExactInv, NEW t \in Settlers, BeginSettle(t)
    PROVE ExactInv'
<1>1. /\ TypeOK /\ RowInv /\ t \in Tx /\ t \notin Loggers /\ \A u \in Tx : Ended(u)
  BY QuotesAssumption DEF QuotesInv, ExactInv, Tx
<1>2. Moves(t, "scanning") /\ rows' = rows /\ quotes' = quotes /\ next' = next
  BY <1>1, BeginSettleDoes
<1>3. Isolated(t) /\ SameOld BY <1>1, <1>2, QuietIsolated
<1>4. \A u \in Tx : Ended(u)' BY <1>1, <1>2, <1>3, EndedStays DEF Moves
<1>5. \A u \in Loggers : LoggerQuotes(u)'
  BY <1>1, <1>3, LoggerQuotesStay DEF ExactInv
<1>6. ASSUME ~overlap' PROVE SoleInv'
  <2>1. ~overlap /\ \A s \in Settlers \ {t} : At(s, "idle") BY <1>6 DEF BeginSettle
  <2>2. SoleInv BY <2>1 DEF ExactInv
  <2>3. \A s \in Settlers : s # t => tx'[s] = tx[s] BY <1>2 DEF Moves, Tx
  <2>4. Sole' BY <2>1, <2>3 DEF Sole, At
  <2>5. ShowsOpen' BY <1>1, <1>3, <2>2, ShowsOpenStays DEF SoleInv
  <2>6. \A s \in Settlers : OwnPoints(s)' /\ GradedGone(s)'
    BY <1>2, <2>2, SoleQuiet DEF SoleInv, Tx
  <2> QED BY <2>4, <2>5, <2>6 DEF SoleInv
<1> QED BY <1>4, <1>5, <1>6 DEF ExactInv

\* its steps
LEMMA SettlerExact ==
    ASSUME QuotesInv, QuotesInv', ExactInv, NEW t \in Settlers,
           Take(t) \/ Skip(t) \/ Scanned(t) \/ Settle(t) \/ Promote(t) \/ Reference(t)
    PROVE ExactInv'
<1>1. /\ TypeOK /\ RowInv /\ StepInv /\ t \in Tx /\ t \notin Loggers
      /\ \A u \in Tx : Ended(u)
  BY QuotesAssumption DEF QuotesInv, ExactInv, Tx
<1>2. Promote(t) => tx[t].id \in RowId /\ quotes[rows[tx[t].id].new.quote].by = t
  BY <1>1 DEF Promote, StepInv, SettlerInv
<1>3. Reference(t) => tx[t].id \in RowId BY <1>1 DEF Reference, StepInv, SettlerInv
<1>4. /\ Isolated(t) /\ SameOld /\ ~At(t, "idle") /\ tx'[t].pc # "idle"
      /\ overlap' = overlap
  <2>1. CASE Take(t)
    BY <1>1, <2>1, TakeDoes, TakeIsolated DEF Moves, At, Take
  <2>2. CASE Skip(t)
    BY <1>1, <2>2, SkipDoes, QuietIsolated DEF Moves, At, Skip
  <2>3. CASE Scanned(t)
    BY <1>1, <2>3, ScannedDoes, QuietIsolated DEF Moves, At, Scanned
  <2>4. CASE Settle(t)
    BY <1>1, <2>4, SettleDoes, SettleIsolated DEF Moves, At, Settle
  <2>5. CASE Promote(t)
    BY <1>1, <1>2, <2>5, PromoteDoes, PromoteIsolated DEF Moves, At, Promote
  <2>6. CASE Reference(t)
    BY <1>1, <1>3, <2>6, ReferenceDoes, QuietIsolated DEF Moves, At, Reference
  <2> QED BY <2>1, <2>2, <2>3, <2>4, <2>5, <2>6
<1>5. \A u \in Tx : Ended(u)' BY <1>1, <1>4, EndedStays
<1>6. \A u \in Loggers : LoggerQuotes(u)'
  BY <1>1, <1>4, LoggerQuotesStay DEF ExactInv
<1>7. ASSUME ~overlap PROVE SoleInv'
  <2>1. SoleInv /\ OwnPoints(t) /\ GradedGone(t) BY <1>7 DEF ExactInv, SoleInv
  <2>2. ShowsOpen' BY <1>1, <1>4, <2>1, ShowsOpenStays DEF SoleInv
  <2>3. Skip(t) \/ Scanned(t) \/ Reference(t) => rows' = rows /\ quotes' = quotes
    BY DEF Skip, Scanned, Reference
  <2>4. OwnPoints(t)' /\ GradedGone(t)'
    BY <1>1, <1>2, <2>1, <2>3, SoleQuiet, TakeExact, SettleExact, PromoteExact
  <2> QED BY <1>1, <1>4, <1>5, <2>1, <2>2, <2>4, SoleSettles
<1> QED BY <1>4, <1>5, <1>6, <1>7 DEF ExactInv

\* and the end of a transaction.
LEMMA EndExact ==
    ASSUME QuotesInv, QuotesInv', ExactInv, NEW t \in Tx, Commit(t) \/ Rollback(t)
    PROVE ExactInv'
<1>1. /\ TypeOK /\ RowInv /\ StepInv /\ t # None /\ \A u \in Tx : Ended(u)
      /\ t \in Loggers => t \notin Settlers
  BY QuotesAssumption DEF QuotesInv, ExactInv
<1>o. overlap' = overlap BY DEF Commit, Rollback
<1>2. /\ Isolated(t) /\ tx'[t].pc = "idle" /\ ~At(t, "idle")
      /\ \A i \in RowId : rows'[i].by # t
      /\ \A q \in Quotes : quotes'[q].by # t
  <2>1. CASE Commit(t)
    <3>1. Moves(t, "idle") /\ ~At(t, "idle") BY <1>1, <2>1, CommitDoes DEF At
    <3>2. /\ \A i \in RowId : rows'[i].by # t
          /\ \A q \in Quotes : quotes'[q].by # t
      BY <1>1, <2>1, CommitDoes
    <3>3. Isolated(t) BY <1>1, <2>1, CommitIsolated
    <3> QED BY <3>1, <3>2, <3>3 DEF Moves
  <2>2. CASE Rollback(t)
    <3>1. Moves(t, "idle") /\ ~At(t, "idle") BY <1>1, <2>2, RollbackDoes DEF At, Rollback
    <3>2. /\ \A i \in RowId : rows'[i].by # t
          /\ \A q \in Quotes : quotes'[q].by # t
      BY <1>1, <2>2, RollbackDoes
    <3>3. Isolated(t) BY <1>1, <2>2, RollbackIsolated
    <3> QED BY <3>1, <3>2, <3>3 DEF Moves
  <2> QED BY <2>1, <2>2
<1>3. Rollback(t) => SameOld BY <1>1, RollbackIsolated
<1>4. \A u \in Tx : Ended(u)' BY <1>1, <1>2, EndedStays
<1>5. \A u \in Loggers : LoggerQuotes(u)'
  BY <1>2, LoggerQuotesStay DEF ExactInv, LoggerQuotes
<1>6. ASSUME ~overlap PROVE SoleInv'
  <2>1. SoleInv BY <1>6 DEF ExactInv
  <2>2. ShowsOpen'
    <3>1. CASE Commit(t) BY <1>1, <2>1, <3>1, CommitShows DEF SoleInv, ExactInv
    <3>2. CASE Rollback(t) BY <1>1, <1>3, <2>1, <3>2, ShowsOpenStays DEF SoleInv
    <3> QED BY <3>1, <3>2
  <2>3. CASE t \in Settlers
    <3>1. OwnPoints(t)' /\ GradedGone(t)' BY <1>2 DEF OwnPoints, GradedGone
    <3> QED BY <1>1, <1>2, <1>4, <2>1, <2>2, <2>3, <3>1, SoleSettles
  <2>4. CASE t \in Loggers
    <3>1. Sole' BY <1>1, <1>2, <2>1, <2>4, SoleStays DEF SoleInv
    <3>2. \A s \in Settlers : OwnPoints(s)' /\ GradedGone(s)'
      BY <1>1, <1>2, <1>3, <2>1, <2>4, SettlementUndisturbed
         DEF SoleInv, QuotesInv, ExactInv
    <3> QED BY <2>2, <3>1, <3>2 DEF SoleInv
  <2> QED BY <2>3, <2>4 DEF Tx
<1> QED BY <1>o, <1>4, <1>5, <1>6 DEF ExactInv

\* In the initial state no quote is shown.
LEMMA ExactInit == Init => ExactInv
<1> SUFFICES ASSUME Init PROVE ExactInv OBVIOUS
<1>1. /\ \A i \in RowId : rows[i].by = None
      /\ \A q \in Quotes : quotes[q].by = None /\ quotes[q].old = 0
      /\ \A t \in Tx : tx[t].pc = "idle" /\ t # None
  BY QuotesAssumption DEF Init, Stored, Idle
<1>2. (\A t \in Tx : Ended(t)) /\ (\A t \in Loggers : LoggerQuotes(t))
  BY <1>1 DEF Ended, LoggerQuotes, Tx
<1>3. Sole /\ ShowsOpen /\ \A t \in Settlers : OwnPoints(t) /\ GradedGone(t)
  BY <1>1 DEF Sole, ShowsOpen, OwnPoints, GradedGone, At, Tx
<1> QED BY <1>2, <1>3 DEF ExactInv, SoleInv

\* Every step keeps the projection exact, up to an overlap.
LEMMA ExactNext == QuotesInv /\ ExactInv /\ [Next]_vars => ExactInv'
<1> SUFFICES ASSUME QuotesInv, ExactInv, [Next]_vars PROVE ExactInv' OBVIOUS
<1>1. QuotesInv' BY QuotesNext
<1>2. CASE UNCHANGED vars
  <2>1. rows' = rows /\ quotes' = quotes /\ tx' = tx /\ overlap' = overlap
    BY <1>2 DEF vars
  <2>2. (\A t \in Tx : Ended(t)') /\ (\A t \in Loggers : LoggerQuotes(t)')
    BY <2>1 DEF ExactInv, Ended, LoggerQuotes, At
  <2>3. SoleInv => SoleInv'
    BY <2>1 DEF SoleInv, Sole, ShowsOpen, OwnPoints, GradedGone, Candidates, Sees, At
  <2> QED BY <2>1, <2>2, <2>3 DEF ExactInv
<1> QED BY <1>1, <1>2, LoggerExact, BeginExact, SettlerExact, EndExact DEF Next

\* An exact projection is the one verify_current_quotes computes.
LEMMA ExactShows ==
    ASSUME QuotesInv, ShowsOpen PROVE ProjectionIsLog
<1> SUFFICES ASSUME NEW q \in Quotes
    PROVE IF Newest(q) = {} THEN Shown(q) = 0 ELSE Shown(q) \in Newest(q)
  BY DEF ProjectionIsLog
<1>1. TypeOK /\ Committed BY DEF QuotesInv
<1>2. \A i \in RowId : Open(i) /\ rows[i].old.quote = q => Shown(q) # 0 /\ After(Shown(q), i)
  BY <1>1 DEF Committed, Covers, Open, Shown
<1>3. Shown(q) # 0 => Shown(q) \in Newest(q)
  BY <1>1, <1>2, ShownRow DEF ShowsOpen, Newest, Open, Shown
<1>4. Shown(q) = 0 => Newest(q) = {} BY <1>2 DEF Newest
<1> QED BY <1>3, <1>4

\* docs/sports-data-upload.md: the triggers of migration 0014 keep the
\* projection equal to the log (each quote shows the newest open snapshot, and
\* a quote without one is not there) as long as two settlements of the game
\* have not been open at the same time.
THEOREM ProjectionIsExact == Spec => []ExactWithoutOverlap
<1>1. Spec => []ExactInv
  BY QuotesAlways, ExactInit, ExactNext, PTL DEF Spec
<1>2. QuotesInv /\ ExactInv => ExactWithoutOverlap
  BY ExactShows DEF ExactInv, SoleInv, ExactWithoutOverlap
<1> QED BY <1>1, <1>2, QuotesAlways, PTL
=============================================================================
