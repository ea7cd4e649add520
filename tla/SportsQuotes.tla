---------------------------- MODULE SportsQuotes ----------------------------
(***************************************************************************)
(* The prediction log of one game and the board's current quotes.          *)
(* log_sports_predictions appends snapshots of the posted prices, settle_  *)
(* sports_predictions grades the open ones, and the triggers of migration  *)
(* 0014 keep one row per quote in sports_current_quotes that points at the *)
(* newest open snapshot.  Each call is one transaction at READ COMMITTED:  *)
(* a statement sees what was committed when it began and what its own      *)
(* transaction wrote, and waits for a row another transaction has written. *)
(* Both tables therefore carry two versions of a row, the committed one    *)
(* and the one its writer sees.                                            *)
(***************************************************************************)
EXTENDS Integers, FiniteSets

CONSTANTS
    Loggers,   \* transactions of log_sports_predictions
    Settlers,  \* transactions of settle_sports_predictions
    None,      \* no transaction
    RunOf,     \* the run_id each of them works for
    Runs,      \* the run_ids
    Quotes,    \* (event, market, selection, line, bookmaker) of the game
    MaxRows,   \* bound: log rows
    MaxTime    \* bound: prediction timestamps

Tx == Loggers \cup Settlers
RowId == 1..MaxRows
Time == 1..MaxTime

ASSUME QuotesAssumption ==
    /\ Loggers \cap Settlers = {}
    /\ None \notin Tx
    /\ Quotes # {} /\ Runs # {}
    /\ RunOf \in [Tx -> Runs]
    /\ MaxRows \in Nat
    /\ MaxTime \in Nat

VARIABLES
    rows,      \* app.sports_prediction_logs
    quotes,    \* app.sports_current_quotes: the row a quote points at, 0 for none
    next,      \* the ids the sequence has handed out
    tx,        \* the transactions' control state
    overlap    \* history: two settlements were open at the same time
vars == <<rows, quotes, next, tx, overlap>>

Outcome == {"settled", "void"}
State == {"absent", "unresolved"} \cup Outcome
Row == [state: State, quote: Quotes, time: 0..MaxTime, run: Runs]
NoRow == [state |-> "absent", quote |-> CHOOSE q \in Quotes : TRUE, time |-> 0,
          run |-> CHOOSE r \in Runs : TRUE]

\* A stored value: the committed version, the newest one, and who wrote that.
Versions(S) == [old: S, new: S, by: Tx \cup {None}]
Stored(v) == [old |-> v, new |-> v, by |-> None]

Step == {"idle", "logging", "upserting", "scanning", "settling", "promoting",
         "referencing"}
Process == [pc: Step, time: 0..MaxTime, id: 0..MaxRows, todo: SUBSET RowId,
            held: SUBSET RowId, shared: SUBSET RowId,
            outcome: Outcome \cup {"unresolved"}]
Idle == [pc |-> "idle", time |-> 0, id |-> 0, todo |-> {}, held |-> {},
         shared |-> {}, outcome |-> "unresolved"]

\* The tables are well formed; what no open transaction wrote is committed.
TypeOK ==
    /\ rows \in [RowId -> Versions(Row)]
    /\ quotes \in [Quotes -> Versions(0..MaxRows)]
    /\ next \in 0..MaxRows
    /\ tx \in [Tx -> Process]
    /\ overlap \in BOOLEAN
    /\ \A i \in RowId : rows[i].by = None => rows[i].new = rows[i].old
    /\ \A q \in Quotes : quotes[q].by = None => quotes[q].new = quotes[q].old

Init ==
    /\ rows = [i \in RowId |-> Stored(NoRow)]
    /\ quotes = [q \in Quotes |-> Stored(0)]
    /\ next = 0
    /\ tx = [t \in Tx |-> Idle]
    /\ overlap = FALSE

At(t, step) == tx[t].pc = step

\* What a statement of transaction t sees.
Sees(t, version) == IF version.by = t THEN version.new ELSE version.old

\* Nobody else has written the row: a write of t need not wait for it.
Free(t, version) == version.by \in {None, t}
Written(t, version, value) == [version EXCEPT !.new = value, !.by = t]

\* Mutant of Unsettled: the condition on settlement_state is forgotten.
UnsettledAny(row) == row.state # "absent"

\* validation_status = 'valid' AND settlement_state = 'unresolved'
Unsettled(row) == row.state = "unresolved"

\* Row i comes after row j in the order of prediction_timestamp and id.
After(i, j) ==
    \/ rows[i].new.time > rows[j].new.time
    \/ rows[i].new.time = rows[j].new.time /\ i >= j

-----------------------------------------------------------------------------
(* The end of a transaction *)

Keep(version) == [version EXCEPT !.old = version.new, !.by = None]

\* Mutant of Undo: what the transaction wrote stays behind.
UndoNothing(version) == [version EXCEPT !.by = None]

Undo(version) == [version EXCEPT !.new = version.old, !.by = None]

Commit(t) ==
    /\ \/ At(t, "logging")
       \/ /\ At(t, "settling")
          /\ tx[t].outcome \in Outcome => tx[t].held = {}
    /\ rows' = [i \in RowId |-> IF rows[i].by = t THEN Keep(rows[i]) ELSE rows[i]]
    /\ quotes' = [q \in Quotes |-> IF quotes[q].by = t THEN Keep(quotes[q]) ELSE quotes[q]]
    /\ tx' = [tx EXCEPT ![t] = Idle]
    /\ UNCHANGED <<next, overlap>>

\* The process dies, a statement fails or times out, or the deadlock detector
\* ends the transaction.
Rollback(t) ==
    /\ tx[t].pc # "idle"
    /\ rows' = [i \in RowId |-> IF rows[i].by = t THEN Undo(rows[i]) ELSE rows[i]]
    /\ quotes' = [q \in Quotes |-> IF quotes[q].by = t THEN Undo(quotes[q]) ELSE quotes[q]]
    /\ tx' = [tx EXCEPT ![t] = Idle]
    /\ UNCHANGED <<next, overlap>>

-----------------------------------------------------------------------------
(* log_sports_predictions *)

\* The payload of one collection; its time is the prediction timestamp.
BeginLog(t) == \E time \in Time :
    /\ At(t, "idle")
    /\ tx' = [tx EXCEPT ![t] = [Idle EXCEPT !.pc = "logging", !.time = time]]
    /\ UNCHANGED <<rows, quotes, next, overlap>>

\* idx_sports_prediction_exact: a row of the same run, quote and timestamp,
\* stored or being stored, keeps a second one out.
Exact(t, q) == \E i \in RowId :
    /\ rows[i].new.state # "absent"
    /\ rows[i].new.run = RunOf[t]
    /\ rows[i].new.quote = q
    /\ rows[i].new.time = tx[t].time

\* A snapshot that passes validation is inserted.
Insert(t) == \E q \in Quotes :
    /\ At(t, "logging") /\ next < MaxRows
    /\ ~Exact(t, q)
    /\ next' = next + 1
    /\ rows' = [rows EXCEPT ![next + 1] = Written(t, @,
         [state |-> "unresolved", quote |-> q, time |-> tx[t].time, run |-> RunOf[t]])]
    /\ tx' = [tx EXCEPT ![t].pc = "upserting", ![t].id = next + 1]
    /\ UNCHANGED <<quotes, overlap>>

\* Mutant of Wins: whatever arrives last is shown.
WinsAlways(i, current) == TRUE

\* ON CONFLICT DO UPDATE ... WHERE: an out-of-order arrival does not win.
Wins(i, current) == current # 0 => After(i, current)

\* The insert trigger.  The conflicting quote is locked whether or not the new
\* row wins it.
Upsert(t) ==
    LET i == tx[t].id
        q == rows[i].new.quote IN
    /\ At(t, "upserting")
    /\ Free(t, quotes[q])
    /\ quotes' = [quotes EXCEPT ![q] =
         Written(t, @, IF Wins(i, @.new) THEN i ELSE @.new)]
    /\ tx' = [tx EXCEPT ![t].pc = "logging"]
    /\ UNCHANGED <<rows, next, overlap>>

-----------------------------------------------------------------------------
(* settle_sports_predictions *)

\* The payload says that the game is final, that it was postponed or canceled,
\* or nothing about it.  The SELECT finds the open rows of the run.
BeginSettle(t) == \E outcome \in Outcome \cup {"unresolved"} :
    /\ At(t, "idle")
    /\ tx' = [tx EXCEPT ![t] = [Idle EXCEPT !.pc = "scanning", !.outcome = outcome,
         !.todo = {i \in RowId : Unsettled(rows[i].old) /\ rows[i].old.run = RunOf[t]}]]
    /\ overlap' = (overlap \/ \E s \in Settlers \ {t} : ~At(s, "idle"))
    /\ UNCHANGED <<rows, quotes, next>>

\* Another transaction holds a lock on row i that FOR UPDATE conflicts with: a
\* settlement, or a quote that refers to the row.
Locked(t, i) ==
    \/ ~Free(t, rows[i])
    \/ \E s \in Tx \ {t} : i \in tx[s].shared

\* FOR UPDATE SKIP LOCKED, in no particular order: the row is locked for the
\* settlement.
Take(t) == \E i \in tx[t].todo :
    /\ At(t, "scanning")
    /\ ~Locked(t, i) /\ Unsettled(rows[i].old)
    /\ rows' = [rows EXCEPT ![i] = Written(t, @, @.new)]
    /\ tx' = [tx EXCEPT ![t].todo = @ \ {i}, ![t].held = @ \cup {i}]
    /\ UNCHANGED <<quotes, next, overlap>>

\* A locked row is left out, and one that was settled since no longer qualifies.
\* Any row may be locked: capture_sports_closing_lines may be updating it.
Skip(t) == \E i \in tx[t].todo :
    /\ At(t, "scanning")
    /\ tx' = [tx EXCEPT ![t].todo = @ \ {i}]
    /\ UNCHANGED <<rows, quotes, next, overlap>>

Scanned(t) ==
    /\ At(t, "scanning") /\ tx[t].todo = {}
    /\ tx' = [tx EXCEPT ![t].pc = "settling"]
    /\ UNCHANGED <<rows, quotes, next, overlap>>

\* The quote the update trigger's DELETE matches: the one that points at row i.
Owned(t, i) == Sees(t, quotes[rows[i].new.quote]) = i

\* The UPDATE of one row, and the DELETE of the update trigger.  The DELETE
\* waits for a quote that matches and that another transaction has written.
Settle(t) == \E i \in tx[t].held :
    LET q == rows[i].new.quote IN
    /\ At(t, "settling") /\ tx[t].outcome \in Outcome
    /\ Unsettled(rows[i].new)
    /\ Owned(t, i) => Free(t, quotes[q])
    /\ rows' = [rows EXCEPT ![i] = Written(t, @, [@.new EXCEPT !.state = tx[t].outcome])]
    /\ quotes' = IF Owned(t, i) THEN [quotes EXCEPT ![q] = Written(t, @, 0)] ELSE quotes
    /\ tx' = [tx EXCEPT ![t].held = @ \ {i}, ![t].id = i,
         ![t].pc = IF Owned(t, i) THEN "promoting" ELSE "settling"]
    /\ UNCHANGED <<next, overlap>>

\* Mutant of Candidates: the quote is dropped with the snapshot that owned it.
CandidatesNone(t, q) == {}

\* The open snapshots of a quote that the promotion sees.
Candidates(t, q) == {i \in RowId :
    Unsettled(Sees(t, rows[i])) /\ Sees(t, rows[i]).quote = q}

\* sports_current_quotes_promote
Promote(t) ==
    LET q == rows[tx[t].id].new.quote IN
    /\ At(t, "promoting")
    /\ \/ /\ Candidates(t, q) = {}
          /\ tx' = [tx EXCEPT ![t].pc = "settling"]
          /\ UNCHANGED quotes
       \/ \E i \in Candidates(t, q) :
            /\ \A j \in Candidates(t, q) : After(i, j)
            /\ quotes' = [quotes EXCEPT ![q] = Written(t, @, i)]
            /\ tx' = [tx EXCEPT ![t].pc = "referencing", ![t].id = i]
    /\ UNCHANGED <<rows, next, overlap>>

\* The foreign key of the promoted quote takes FOR KEY SHARE on the log row it
\* refers to, and waits for a settlement that has the row FOR UPDATE.
Reference(t) ==
    /\ At(t, "referencing")
    /\ Free(t, rows[tx[t].id])
    /\ tx' = [tx EXCEPT ![t].pc = "settling", ![t].shared = @ \cup {tx[t].id}]
    /\ UNCHANGED <<rows, quotes, next, overlap>>

Next ==
    \/ \E t \in Loggers : BeginLog(t) \/ Insert(t) \/ Upsert(t)
    \/ \E t \in Settlers :
         BeginSettle(t) \/ Take(t) \/ Skip(t) \/ Scanned(t) \/ Settle(t) \/ Promote(t)
         \/ Reference(t)
    \/ \E t \in Tx : Commit(t) \/ Rollback(t)

Spec == Init /\ [][Next]_vars

-----------------------------------------------------------------------------
(* Properties, of what a reader of the committed tables sees *)

Open(i) == Unsettled(rows[i].old)
Shown(q) == quotes[q].old

\* "Losing the newest snapshot of a market does not lose the market": every
\* open snapshot is the one its quote shows or is older, although snapshots
\* arrive out of order, settlements pass over locked rows and any transaction
\* may roll back.
NoQuoteIsLost == \A i \in RowId : Open(i) =>
    /\ Shown(rows[i].old.quote) # 0
    /\ After(Shown(rows[i].old.quote), i)

\* "Migration 0014 maintains the projection with a trigger on
\* app.sports_prediction_logs, so every writer keeps it current"
\* (docs/sports-data-upload.md:35): verify_current_quotes finds that every
\* quote is the newest open snapshot of the log, and there is no other quote.
Newest(q) == {i \in RowId : Open(i) /\ rows[i].old.quote = q
    /\ \A j \in RowId : Open(j) /\ rows[j].old.quote = q => After(i, j)}
ProjectionIsLog == \A q \in Quotes :
    IF Newest(q) = {} THEN Shown(q) = 0 ELSE Shown(q) \in Newest(q)

\* The projection is exact unless two settlements were open at the same time.
ExactWithoutOverlap == ~overlap => ProjectionIsLog

\* A graded snapshot is never graded again, with another or the same outcome,
\* by any of several settlements that found it open.
OutcomeIsFinal ==
    [][\A i \in RowId : rows[i].old.state \in Outcome => rows'[i].old = rows[i].old]_vars
=============================================================================
