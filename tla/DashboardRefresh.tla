---------------------------- MODULE DashboardRefresh ----------------------------
(***************************************************************************)
(* The refresh of the dashboard's data, and what the dashboard then shows: *)
(* run_refresh and refresh_payload of paper_server.py with the threads     *)
(* that call them (the server's start, the automatic loop, the requests of *)
(* an operator), the gates of slip_safety.py and the quality gate of       *)
(* source_quality.py.  A thread that asks for a refresh runs it itself or  *)
(* hands it to a new one; both are the same thread here, as the asking one *)
(* touches nothing after that.                                             *)
(***************************************************************************)
EXTENDS Integers, Sequences, SequencesExt

CONSTANTS
    Operators,          \* threads of requests that post /refresh
    Builds,             \* what a collection finds: [skew, stale, slips]
    Cooldown,           \* REFRESH_COOLDOWN_SECONDS, in ticks
    MaxSlipAge,         \* DASHBOARD_MAX_SLIP_AGE_SECONDS
    FutureTolerance,    \* how far ahead a payload's time may be
    ErrorWindow,        \* max_age_seconds of active_refresh_errors
    DetailPages,        \* limits asked for
    MaxDetailPage,      \* MAX_DETAIL_PAGE_SIZE
    MaxDashboardClock,  \* bound: ticks
    MaxRefreshes        \* bound: refreshes asked for

SlipKeys == {"custom_slip", "leverage_slip", "all_day_slip", "research_edge_slip"}

\* A slip is absent, built with the evidence of a listed combo, or without it.  A lock
\* that is free is no thread's, and a page may hold a record.
ASSUME DashboardAssumption ==
    /\ Cooldown \in Nat /\ MaxSlipAge \in Nat /\ FutureTolerance \in Nat
    /\ ErrorWindow \in Nat /\ DetailPages \subseteq Nat /\ MaxDetailPage \in Nat \ {0}
    /\ MaxDashboardClock \in Nat /\ MaxRefreshes \in Nat
    /\ \A b \in Builds : b \in [skew : Int, stale : BOOLEAN,
                                slips : [SlipKeys -> {"none", "listed", "unlisted"}]]
    /\ "free" \notin Operators

RefreshThreads == Operators \cup {"boot", "loop"}

VARIABLES
    drClock,
    drFile,        \* the payload in data_path
    drStored,      \* the newest snapshot in PostgreSQL
    drLock,        \* refresh_lock: "free", or the thread that took it
    drLastManual,  \* last_manual_refresh_at
    drStatus,      \* refresh_status
    drThread,      \* where each thread is in run_refresh
    drLoop,        \* is the thread of the automatic refresh alive?
    drAudit,       \* refresh_audit.jsonl: [ok, at]; error_events.jsonl holds those not ok
    drLast,        \* history: how the last refresh that ended did
    drFault,       \* history: a thread could not be started or a file not be written
    drAsked        \* refreshes asked for so far
drVars == <<drClock, drFile, drStored, drLock, drLastManual, drStatus, drThread, drLoop,
            drAudit, drLast, drFault, drAsked>>

Nothing == [k \in SlipKeys |-> "none"]
\* load_payload without a file, and blocked_dashboard_payload
NoFile == [at |-> -1, error |-> "", stale |-> FALSE, slips |-> Nothing]
blocked_dashboard_payload(code) == [NoFile EXCEPT !.error = code]
IdleThread == [at |-> "idle", reason |-> "", now |-> 0, payload |-> NoFile, result |-> ""]

\* run_server asks for the first refresh before it serves.
drInit ==
    /\ drClock = 0
    /\ drFile = NoFile
    /\ drStored = NoFile
    /\ drLock = "free"
    /\ drLastManual = -Cooldown
    /\ drStatus = "idle"
    /\ drThread = [t \in RefreshThreads |->
            IF t = "boot" THEN [IdleThread EXCEPT !.at = "asked", !.reason = "startup"]
            ELSE IdleThread]
    /\ drLoop = TRUE
    /\ drAudit = << >>
    /\ drLast = "none"
    /\ drFault = FALSE
    /\ drAsked = 0

DashboardTick ==
    /\ drClock < MaxDashboardClock
    /\ drClock' = drClock + 1
    /\ UNCHANGED <<drFile, drStored, drLock, drLastManual, drStatus, drThread, drLoop,
                   drAudit, drLast, drFault, drAsked>>

----------------------------------------------------------------------------
(* run_refresh *)

Goes(t, at) == drThread' = [drThread EXCEPT ![t].at = at]
Leaves(t) == drThread' = [drThread EXCEPT ![t] = IdleThread]

\* do_POST, and the loop of start_refresh_thread when it wakes
AskRefresh(t) ==
    /\ drThread[t].at = "idle" /\ t # "boot"
    /\ t = "loop" => drLoop
    /\ drAsked < MaxRefreshes
    /\ drAsked' = drAsked + 1
    /\ drThread' = [drThread EXCEPT ![t].at = "asked",
                                    ![t].reason = IF t = "loop" THEN "auto" ELSE "manual"]
    /\ UNCHANGED <<drClock, drFile, drStored, drLock, drLastManual, drStatus, drLoop,
                   drAudit, drLast, drFault>>

\* The cooldown is read here and set when the lock is held.
CheckCooldown(t) ==
    /\ drThread[t].at = "asked"
    /\ IF drThread[t].reason = "manual" /\ drClock - drLastManual < Cooldown
       THEN Leaves(t)
       ELSE drThread' = [drThread EXCEPT ![t].at = "allowed", ![t].now = drClock]
    /\ UNCHANGED <<drClock, drFile, drStored, drLock, drLastManual, drStatus, drLoop, drAudit,
                   drLast, drFault, drAsked>>

AcquireRefresh(t) ==
    /\ drThread[t].at = "allowed"
    /\ IF drLock = "free"
       THEN drLock' = t /\ Goes(t, "locked")
       ELSE drLock' = drLock /\ Leaves(t)
    /\ UNCHANGED <<drClock, drFile, drStored, drLastManual, drStatus, drLoop, drAudit, drLast,
                   drFault, drAsked>>

Announce(t) ==
    /\ drThread[t].at = "locked"
    /\ drLastManual' = IF drThread[t].reason = "manual" THEN drThread[t].now ELSE drLastManual
    /\ drStatus' = "running"
    /\ Goes(t, "announced")
    /\ UNCHANGED <<drClock, drFile, drStored, drLock, drLoop, drAudit, drLast, drFault, drAsked>>

\* The loop runs the job itself; the others start a thread, which may fail.
StartJob(t, starts) ==
    /\ drThread[t].at = "announced"
    /\ t = "loop" => starts
    /\ IF starts THEN Goes(t, "job") ELSE Leaves(t)
    /\ drFault' = (drFault \/ ~starts)
    /\ UNCHANGED <<drClock, drFile, drStored, drLock, drLastManual, drStatus, drLoop, drAudit,
                   drLast, drAsked>>

----------------------------------------------------------------------------
(* refresh_payload; cleanup_runtime_storage before it never raises *)

Payload(b) == [at |-> drClock + b.skew, error |-> "", stale |-> b.stale, slips |-> b.slips]

\* write_today_payload collects, and writes data_path last.
Collect(t, b) ==
    /\ drThread[t].at = "job"
    /\ drFile' = Payload(b)
    /\ drThread' = [drThread EXCEPT ![t].at = "collected", ![t].payload = Payload(b)]
    /\ UNCHANGED <<drClock, drStored, drLock, drLastManual, drStatus, drLoop, drAudit, drLast,
                   drFault, drAsked>>

CollectRaises(t) ==
    /\ drThread[t].at = "job"
    /\ Goes(t, "failed")
    /\ UNCHANGED <<drClock, drFile, drStored, drLock, drLastManual, drStatus, drLoop, drAudit,
                   drLast, drFault, drAsked>>

Newer(p, q) == IF p.at >= q.at THEN p ELSE q

PersistPayload(t, works) ==
    /\ drThread[t].at = "collected"
    /\ IF works
       THEN /\ drStored' = Newer(drThread[t].payload, drStored)
            /\ Goes(t, "persisted")
       ELSE /\ drStored' = drStored
            /\ drThread' = [drThread EXCEPT ![t].at = "ended",
                                            ![t].result = "postgres_snapshot_persistence_failed"]
    /\ UNCHANGED <<drClock, drFile, drLock, drLastManual, drStatus, drLoop, drAudit, drLast,
                   drFault, drAsked>>

\* log_refresh_predictions: that it fails is reported and changes nothing else.
log_refresh_predictions(t) ==
    /\ drThread[t].at = "persisted"
    /\ drThread' = [drThread EXCEPT ![t].at = "ended", ![t].result = "ok"]
    /\ UNCHANGED <<drClock, drFile, drStored, drLock, drLastManual, drStatus, drLoop, drAudit,
                   drLast, drFault, drAsked>>

\* The outer handler marks the file.  When it cannot, the exception leaves
\* run_refresh: the status stays, and the loop, if it is the loop's, ends.
RecordFailure(t, writes) ==
    /\ drThread[t].at = "failed"
    /\ IF writes
       THEN /\ drFile' = [drFile EXCEPT !.error = "live_refresh_failed"]
            /\ drThread' = [drThread EXCEPT ![t].at = "ended",
                                            ![t].result = "live_refresh_failed"]
            /\ UNCHANGED <<drLoop, drFault>>
       ELSE /\ Goes(t, "release")
            /\ drLoop' = (drLoop /\ t # "loop")
            /\ drFault' = TRUE
            /\ UNCHANGED drFile
    /\ UNCHANGED <<drClock, drStored, drLock, drLastManual, drStatus, drAudit, drLast, drAsked>>

EndJob(t) ==
    /\ drThread[t].at = "ended"
    /\ LET ok == drThread[t].result = "ok"
       IN  /\ drStatus' = IF ok THEN "complete" ELSE "error"
           /\ drAudit' = Append(drAudit, [ok |-> ok, at |-> drClock])
    /\ drLast' = drThread[t].result
    /\ Goes(t, "release")
    /\ UNCHANGED <<drClock, drFile, drStored, drLock, drLastManual, drLoop, drFault, drAsked>>

ReleaseRefresh(t) ==
    /\ drThread[t].at = "release"
    /\ drLock' = "free"
    /\ Leaves(t)
    /\ UNCHANGED <<drClock, drFile, drStored, drLastManual, drStatus, drLoop, drAudit, drLast,
                   drFault, drAsked>>

refresh_payload(t) ==
    \/ \E b \in Builds : Collect(t, b)
    \/ CollectRaises(t)
    \/ \E works \in BOOLEAN : PersistPayload(t, works) \/ RecordFailure(t, works)
    \/ log_refresh_predictions(t)

run_refresh(t) ==
    \/ CheckCooldown(t) \/ AcquireRefresh(t) \/ Announce(t)
    \/ \E starts \in BOOLEAN : StartJob(t, starts)
    \/ EndJob(t) \/ ReleaseRefresh(t)

drNext ==
    \/ DashboardTick
    \/ \E t \in RefreshThreads : AskRefresh(t) \/ run_refresh(t) \/ refresh_payload(t)

----------------------------------------------------------------------------
(* What the dashboard shows *)

\* readable: the database answers.
load_current_payload(source, hosted, readable) ==
    IF source = "file"
    THEN IF hosted THEN blocked_dashboard_payload("hosted_file_payload_forbidden") ELSE drFile
    ELSE IF ~readable THEN blocked_dashboard_payload("postgres_snapshot_unavailable")
    ELSE IF drStored = NoFile THEN blocked_dashboard_payload("postgres_snapshot_missing")
    ELSE drStored

slip_payload_gate(p) ==
    LET age == drClock - p.at
    IN  CASE p.error # "" -> "blocked_refresh_failed"
          [] p.error = "" /\ p.stale -> "blocked_stale_source"
          [] p.error = "" /\ ~p.stale /\ p.at = -1 -> "blocked_missing_generated_at"
          [] OTHER -> IF age < -FutureTolerance THEN "blocked_invalid_generated_at"
                      ELSE IF age > MaxSlipAge THEN "blocked_stale_payload"
                      ELSE "fresh_data_ready"

\* The slips that are left: without a gate's consent none is, with it those
\* that a listed combo proves.
gate_slip_payload(p) ==
    [k \in SlipKeys |-> IF /\ slip_payload_gate(p) = "fresh_data_ready"
                           /\ p.slips[k] = "listed"
                        THEN "listed" ELSE "none"]

consumer_payload(p, scout) ==
    {k \in SlipKeys : gate_slip_payload(p)[k] # "none" /\ (k = "research_edge_slip" => scout)}

\* A page of n records, and where the next one starts (0: there is none).
Bounded(x, high) == IF x > high THEN high ELSE x
build_detail_collection_payload(p, n, offset, limit) ==
    LET ready == slip_payload_gate(p) = "fresh_data_ready"
        from == Bounded(offset, n)
        shown == IF ready THEN Bounded(Bounded(limit, MaxDetailPage), n - from) ELSE 0
    IN  [items |-> from + 1..from + shown,
         next |-> IF ready /\ from + shown < n THEN from + shown ELSE 0]

\* The failures of the last ten audit rows that no later success answers
\* and that are recent.
AuditTail == SubSeq(drAudit, IF Len(drAudit) > 10 THEN Len(drAudit) - 9 ELSE 1, Len(drAudit))
\* Mutant of active_refresh_errors: any success answers for every failure.
ErrorsWithoutSuccess ==
    {i \in DOMAIN AuditTail : /\ \A j \in DOMAIN AuditTail : ~AuditTail[j].ok
                              /\ drClock - AuditTail[i].at <= ErrorWindow}

active_refresh_errors ==
    {i \in DOMAIN AuditTail :
        /\ ~AuditTail[i].ok
        /\ drClock - AuditTail[i].at <= ErrorWindow
        /\ \A j \in DOMAIN AuditTail : AuditTail[j].ok => AuditTail[i].at > AuditTail[j].at}

build_dashboard_quality_gate(p) ==
    {r \in {"missing_or_invalid_generated_at", "dashboard_payload_stale_over_30m",
            "latest_refresh_error", "stale_cache_fallback_used", "no_slips_built",
            "active_refresh_errors_present"} :
        CASE r = "missing_or_invalid_generated_at" -> p.at = -1
          [] r = "dashboard_payload_stale_over_30m" -> p.at # -1 /\ drClock - p.at > MaxSlipAge
          [] r = "latest_refresh_error" -> p.error # ""
          [] r = "stale_cache_fallback_used" -> p.stale
          [] r = "no_slips_built" -> p.slips = Nothing
          [] OTHER -> active_refresh_errors # {}}

build_quality_status(p) == IF build_dashboard_quality_gate(p) = {} THEN "OK" ELSE "WATCH"

----------------------------------------------------------------------------
(* Properties *)

drTypeOK ==
    /\ drClock \in 0..MaxDashboardClock
    /\ drLock \in RefreshThreads \cup {"free"}
    /\ drStatus \in {"idle", "running", "complete", "error"}
    /\ \A t \in RefreshThreads : drThread[t].at \in
            {"idle", "asked", "allowed", "locked", "announced", "job", "collected",
             "persisted", "failed", "ended", "release"}
    /\ drLast \in {"none", "ok", "live_refresh_failed", "postgres_snapshot_persistence_failed"}

Inside(t) == drThread[t].at \notin {"idle", "asked", "allowed"}

\* run_refresh: one refresh at a time, the lock is its thread's, and unless a
\* thread or a file failed the status says whether one runs.
OneRefreshAtATime ==
    /\ \A t \in RefreshThreads : Inside(t) => drLock = t
    /\ ~drFault => (drLock # "free" => Inside(drLock))
    /\ ~drFault /\ drLock = "free" => drStatus # "running"
    /\ ~drFault => drLoop

\* refresh_payload: "Slips are hidden until fresh data returns" after a live
\* refresh that failed, where the dashboard reads the file.
FailureHidesFile ==
    drLock = "free" /\ drLast = "live_refresh_failed" =>
        consumer_payload(load_current_payload("file", FALSE, TRUE), TRUE) = {}

\* slip_payload_gate: no slip is shown whose data are older than allowed, from
\* whichever source, and a reader is never shown the research slip.
ShownIsFresh ==
    \A source \in {"file", "postgres"} :
        LET p == load_current_payload(source, FALSE, TRUE)
        IN  /\ consumer_payload(p, TRUE) # {} =>
                   drClock - p.at <= MaxSlipAge /\ p.at - drClock <= FutureTolerance
            /\ "research_edge_slip" \notin consumer_payload(p, FALSE)

\* build_quality_status: a failed refresh that no success followed shows for
\* as long as its audit row is recent.
FailureIsNoticed ==
    LET n == Len(drAudit)
    IN  /\ n > 0 /\ ~drAudit[n].ok /\ drClock - drAudit[n].at <= ErrorWindow
        /\ \A i \in 1..n : drAudit[i].ok => drAudit[i].at < drAudit[n].at
        => build_quality_status(drStored) = "WATCH"

\* The records that a reader sees, page by page, who follows next from each offset.
PagesFrom(n, limit) ==
    LET page[o \in 0..n] ==
            LET q == build_detail_collection_payload(drFile, n, o, limit)
            IN  IF q.next = 0 THEN <<q.items>> ELSE <<q.items>> \o page[q.next]
    IN  page

\* build_detail_collection_payload: following next shows every record once.
DetailPagesCover ==
    \A n \in 0..3, limit \in DetailPages \ {0} :
        LET pages == PagesFrom(n, limit)[0]
        IN  slip_payload_gate(drFile) = "fresh_data_ready" =>
                \A r \in 1..n : \E i \in DOMAIN pages :
                    r \in pages[i] /\ \A j \in DOMAIN pages : r \in pages[j] => i = j

=============================================================================
