---------------------------- MODULE MCOperations ----------------------------
(***************************************************************************)
(* The parts of the system that serve and keep it running, beside each     *)
(* other.  They share no variable, so that a behaviour is split by the     *)
(* component it is about (focus): the others keep their initial state.     *)
(* Where a component's interesting behaviours need different inputs, its   *)
(* focus names the part.                                                   *)
(***************************************************************************)
EXTENDS MarketSnapshots, CatalogStore, Preflight, DashboardRefresh, OperatorInbox,
        DatabaseStartup, FleetStatus

VARIABLE focus

MCMarket(ticker, at, bid, ask) ==
    [ticker |-> ticker, event |-> "E", at |-> at, status |-> "active", bid |-> bid, ask |-> ask]
MCSnapshots ==
    {[at |-> 1, version |-> 1, markets |-> <<MCMarket("A", 1, 40, 45), MCMarket("B", 1, 60, 50)>>]}
    \cup {[at |-> 2, version |-> v, markets |-> <<MCMarket("A", 2, 40, 45),
           MCMarket("A", 2, 40, 46), MCMarket("", 2, 1, 2)>>] : v \in {1, 2}}
MCSnapshotKeys == {<<"cycle">>}

MCWindows == <<[before |-> 1, name |-> "t05", priority |-> 10],
               [before |-> 2, name |-> "t20", priority |-> 20],
               [before |-> 3, name |-> "t65", priority |-> 30]>>

MCDeployments == {[NoSettings EXCEPT !.hosted = TRUE, !.users = TRUE, !.password = TRUE],
                  [NoSettings EXCEPT !.hosted = TRUE]}

MCSlips(r, a) == [k \in SlipKeys |-> CASE k = "custom_slip" -> "listed"
                    [] k = "research_edge_slip" -> r [] k = "all_day_slip" -> a [] OTHER -> "none"]
MCBuilds == {[skew |-> 0, stale |-> FALSE, slips |-> MCSlips("listed", "unlisted")],
             [skew |-> 2, stale |-> FALSE, slips |-> MCSlips("none", "none")]}

\* The code that runs first, one with a further migration, one with another first
MCTrees == {<<"a">>, <<"a", "b">>, <<"x">>}
MCCadence == [s \in Services |-> IF s = "kalshi-market-ingestion" THEN 1 ELSE 2]

Parts ==
    {<<"snapshots", "">>, <<"catalog", "books">>, <<"catalog", "rows">>,
     <<"sessions", "tokens">>, <<"sessions", "locks">>, <<"sessions", "rest">>,
     <<"preflight", "">>, <<"dashboard", "">>, <<"inbox", "">>, <<"startup", "code">>, <<"startup", "pools">>}
    \cup {<<"fleet", s>> : s \in Services}

Init ==
    /\ focus \in Parts
    /\ msInit /\ csInit /\ ssInit /\ pfInit /\ drInit /\ obInit /\ dsInit /\ fsInit
    /\ \A p \in Processes : dsCode[p].tree = <<"a">>

Only(component, part) == focus = <<component, part>>

CatalogFocus ==
    \/ CatalogTick
    \/ Only("catalog", "books") /\ schedule_pregame_refreshes
    \/ \E c \in CatalogCollectors :
        \/ StoreCatalog(c)
        \/ \E kind \in IF Only("catalog", "books") THEN {"market"}
                       ELSE {"sport", "milestone", "asset", "entity", "live"},
              id \in {i \in CatalogIds : Only("catalog", "books") \/ \A j \in CatalogIds : i <= j},
              value \in Values \ IF Only("catalog", "books") THEN {} ELSE {"closed"},
              start \in GameStarts : FetchCatalog(c, kind, id, value, start)

\* The browser that sends two requests, guesses at the password, the rest
SessionFocus ==
    LET alone == CHOOSE r \in Requests : TRUE
        tokens == Only("sessions", "tokens")
        locks == Only("sessions", "locks")
        first == [NoSettings EXCEPT !.hosted = TRUE, !.users = TRUE, !.password = TRUE]
    IN  \/ ~tokens /\ SessionTick
        \/ ~locks /\ DropCsrfCookie
        \/ \E e \in Deployments :
              (Only("sessions", "rest") \/ (ssEnv = NoSettings /\ e = first)) /\ StartServer(e)
        \/ locks /\ \E disabled \in BOOLEAN : set_disabled(disabled)
        \/ \E r \in IF tokens THEN Requests ELSE {alone} :
              \/ RequestStep(r)
              \/ \E right \in {TRUE, tokens} : authenticate_password(r, right)
              \/ \E kind \in IF tokens THEN {"login", "page", "logout"}
                             ELSE IF locks THEN {"login"} ELSE {"login", "post"},
                    basic \in {FALSE, Only("sessions", "rest")} : Send(r, kind, basic)

\* The worker sees one version of what the exchange says at a time, the dashboard either.
SnapshotFocus ==
    /\ msNext
    /\ msTx'["worker"] # NoSnapshotTx => msTx'["worker"].payload.version = 1

\* The first refresh finds what the exchange says.
DashboardFocus ==
    /\ drNext
    /\ drThread'["boot"].at # "failed" /\ drThread'["boot"].payload.at <= drClock

\* Processes deployed again, with one pool between them, or two pools and no deployment
StartupFocus ==
    /\ dsNext
    /\ Only("startup", "code") => Len(dsPools') <= 1
    /\ Only("startup", "pools") => dsDeployed' = 0

\* One service of the fleet works, the others have never been started; the database
\* goes and comes back, and beside one of them everything else does too.
FleetFocus ==
    \/ FleetTick \/ _reporting_operation
    \/ FleetWeather /\ (fsUp' # fsUp \/ Only("fleet", "kalshi-market-ingestion"))
    \/ \E s \in Services :
         /\ Only("fleet", s)
         /\ BeginCycle(s) \/ WorkerStops(s) \/ (\E cycle \in ServiceCycles[s] : EndCycle(s, cycle))

Next ==
    \/ /\ focus[1] = "snapshots" /\ SnapshotFocus
       /\ UNCHANGED <<focus, csVars, ssVars, pfVars, drVars, obVars, dsVars, fsVars>>
    \/ /\ focus[1] = "catalog" /\ CatalogFocus
       /\ UNCHANGED <<focus, msVars, ssVars, pfVars, drVars, obVars, dsVars, fsVars>>
    \/ /\ focus[1] = "sessions" /\ SessionFocus
       /\ UNCHANGED <<focus, msVars, csVars, pfVars, drVars, obVars, dsVars, fsVars>>
    \/ /\ focus[1] = "preflight" /\ pfNext
       /\ UNCHANGED <<focus, msVars, csVars, ssVars, drVars, obVars, dsVars, fsVars>>
    \/ /\ focus[1] = "dashboard" /\ DashboardFocus
       /\ UNCHANGED <<focus, msVars, csVars, ssVars, pfVars, obVars, dsVars, fsVars>>
    \/ /\ focus[1] = "inbox" /\ obNext
       /\ UNCHANGED <<focus, msVars, csVars, ssVars, pfVars, drVars, dsVars, fsVars>>
    \/ /\ focus[1] = "startup" /\ StartupFocus
       /\ UNCHANGED <<focus, msVars, csVars, ssVars, pfVars, drVars, obVars, fsVars>>
    \/ /\ focus[1] = "fleet" /\ FleetFocus
       /\ UNCHANGED <<focus, msVars, csVars, ssVars, pfVars, drVars, obVars, dsVars>>
vars == <<focus, msVars, csVars, ssVars, pfVars, drVars, obVars, dsVars, fsVars>>
Spec == Init /\ [][Next]_vars

----------------------------------------------------------------------------
(* Properties: those of the components, which their modules state. *)

\* Every component's state keeps its shape.
OperationsTypeOK ==
    CASE focus[1] = "snapshots" -> msTypeOK
      [] focus[1] = "catalog" -> csTypeOK
      [] focus[1] = "sessions" -> ssTypeOK
      [] focus[1] = "preflight" -> pfTypeOK
      [] focus[1] = "dashboard" -> drTypeOK
      [] focus[1] = "inbox" -> obTypeOK
      [] focus[1] = "startup" -> dsTypeOK
      [] focus[1] = "fleet" -> fsTypeOK

\* load_latest_kalshi_snapshot and list_external_markets: what is read back from the
\* database is a whole snapshot, and the newest books, page by page.
StoredViewsAreWhole ==
    /\ focus[1] = "snapshots" => ServedSnapshotIsWhole
    /\ focus[1] = "catalog" => ListedBooksAreCurrent /\ PagesCover

\* auth.py and preflight.py: sign-in, its cookies and its gate, whatever the order
\* of the requests.
AccessIsGuarded ==
    /\ focus[1] = "sessions" => /\ TokenIsCurrentAlone /\ GuessesAreSpaced
                                /\ DisablingSignsOut /\ CatalogIsFetchable
    /\ focus[1] = "preflight" => ReadyMeansSignIn

\* run_refresh and refresh_payload: one refresh at a time, and what the dashboard
\* shows after it; operator_inbox.py: a message is one agent's, the urgent first.
OperatorsAreServed ==
    /\ focus[1] = "dashboard" => /\ OneRefreshAtATime /\ FailureHidesFile /\ ShownIsFresh
                                 /\ FailureIsNoticed /\ DetailPagesCover
    /\ focus[1] = "inbox" => OneAgentHolds /\ ListIsUrgentFirst

\* ensure_database_ready and the pools behind it.
StartupIsSafe == focus[1] = "startup" => ReadyMeansMigrated /\ PoolsAreSound
=============================================================================
