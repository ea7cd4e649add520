---------------------------- MODULE DatabaseStartup ----------------------------
(***************************************************************************)
(* How a process comes to use the database: the readiness cache of         *)
(* business_store.py, the migrations of db_migrations.py and the pools of  *)
(* database.py.  Several processes run, each with the migrations of the    *)
(* code it was deployed with; a process has several threads, and dies and  *)
(* is deployed again at any moment.                                        *)
(***************************************************************************)
EXTENDS Integers, Sequences, SequencesExt

CONSTANTS
    Processes,
    LoopProcesses,  \* processes that run a worker's loop: they alone reset their pools
    ThreadNames,    \* threads of a process
    Trees,          \* migrations of a version of the code: version number -> hash
    MaxDeployments, \* bound: processes deployed again
    MaxPools        \* bound: pools made

\* Migrations are numbered from 1; a later tree may have more, or an edited one.
\* A lock that is free is held by no thread.
ASSUME StartupAssumption ==
    /\ \A tree \in Trees : tree \in Seq(STRING)
    /\ LoopProcesses \subseteq Processes
    /\ "nobody" \notin ThreadNames
    /\ MaxDeployments \in Nat /\ MaxPools \in Nat

VARIABLES
    dsUp,          \* does PostgreSQL answer?
    dsLedger,      \* ops.schema_migrations: the hashes applied, by version
    dsObjects,     \* versions whose statements are in the schema
    dsMigration,   \* the transaction that holds the advisory lock
    dsCode,        \* each process: the tree and the mode it is deployed with
    dsReady,       \* processes whose _ready_database_settings has the settings
    dsGate,        \* the thread that holds _database_readiness_lock, by process
    dsThread,      \* where each thread is, what it has read, and the pool it has
    dsTable,       \* _pools, by process: a pool's number, 0 without one
    dsPools,       \* every pool made: "new", "open", "closed" by close_connection_pools,
                   \* or "failed": closed because its first opening timed out
    dsDeployed     \* deployments so far
dsVars == <<dsUp, dsLedger, dsObjects, dsMigration, dsCode, dsReady, dsGate, dsThread, dsTable,
            dsPools, dsDeployed>>

StartupThreads == Processes \X ThreadNames
NoMigration == [holder |-> "nobody"]
AtRest == [at |-> "idle", ledger |-> << >>, pool |-> 0]

dsInit ==
    /\ dsUp = TRUE
    /\ dsLedger = << >>
    /\ dsObjects = {}
    /\ dsMigration = NoMigration
    /\ \E tree \in Trees : dsCode = [p \in Processes |-> [tree |-> tree, mode |-> "apply"]]
    /\ dsReady = {}
    /\ dsGate = [p \in Processes |-> "nobody"]
    /\ dsThread = [t \in StartupThreads |-> AtRest]
    /\ dsTable = [p \in Processes |-> 0]
    /\ dsPools = << >>
    /\ dsDeployed = 0

Moves(t, at) == dsThread' = [dsThread EXCEPT ![t].at = at]

\* The server stops or comes back; a transaction that is open is gone.
DatabaseSwitch ==
    /\ dsUp' = ~dsUp
    /\ dsMigration' = NoMigration
    /\ dsThread' = [t \in StartupThreads |->
            IF dsThread[t].at \in {"migrating", "schema"}
            THEN [dsThread[t] EXCEPT !.at = "refused"] ELSE dsThread[t]]
    /\ UNCHANGED <<dsLedger, dsObjects, dsCode, dsReady, dsGate, dsTable, dsPools, dsDeployed>>

\* A process dies and is deployed again; what it kept in memory is lost.
Redeploy(p, tree, mode) ==
    /\ dsDeployed < MaxDeployments
    /\ dsDeployed' = dsDeployed + 1
    /\ dsCode' = [dsCode EXCEPT ![p] = [tree |-> tree, mode |-> mode]]
    /\ dsReady' = dsReady \ {p}
    /\ dsGate' = [dsGate EXCEPT ![p] = "nobody"]
    /\ dsTable' = [dsTable EXCEPT ![p] = 0]
    /\ dsThread' = [t \in StartupThreads |-> IF t[1] = p THEN AtRest ELSE dsThread[t]]
    /\ dsMigration' = IF dsMigration # NoMigration /\ dsMigration.holder[1] = p
                      THEN NoMigration ELSE dsMigration
    /\ UNCHANGED <<dsUp, dsLedger, dsObjects, dsPools>>

----------------------------------------------------------------------------
(* ensure_database_ready *)

EnterStartup(t) ==
    /\ dsThread[t].at = "idle"
    /\ IF t[1] \in dsReady
       THEN Moves(t, "ready") /\ UNCHANGED dsGate
       ELSE /\ dsGate[t[1]] = "nobody"
            /\ dsGate' = [dsGate EXCEPT ![t[1]] = t[2]]
            /\ Moves(t, IF dsCode[t[1]].mode = "apply" THEN "apply" ELSE "status")
    /\ UNCHANGED <<dsUp, dsLedger, dsObjects, dsMigration, dsCode, dsReady, dsTable, dsPools,
                   dsDeployed>>

\* The second look, once the lock is held.
AlreadyReady(t) ==
    /\ dsThread[t].at \in {"apply", "status"}
    /\ t[1] \in dsReady
    /\ dsGate' = [dsGate EXCEPT ![t[1]] = "nobody"]
    /\ Moves(t, "ready")
    /\ UNCHANGED <<dsUp, dsLedger, dsObjects, dsMigration, dsCode, dsReady, dsTable, dsPools,
                   dsDeployed>>

\* Mutant of Refused: the lock is kept when the call raises.
RefusedInside(t) ==
    /\ dsThread[t].at = "refused"
    /\ dsThread' = [dsThread EXCEPT ![t] = AtRest]
    /\ UNCHANGED <<dsUp, dsLedger, dsObjects, dsMigration, dsCode, dsReady, dsGate, dsTable,
                   dsPools, dsDeployed>>

\* postgres_database_not_ready, or a migration that failed
Refused(t) ==
    /\ dsThread[t].at = "refused"
    /\ dsGate' = [dsGate EXCEPT ![t[1]] = "nobody"]
    /\ dsThread' = [dsThread EXCEPT ![t] = AtRest]
    /\ UNCHANGED <<dsUp, dsLedger, dsObjects, dsMigration, dsCode, dsReady, dsTable, dsPools,
                   dsDeployed>>

\* The ledger is read under pg_advisory_xact_lock, so that one transaction
\* migrates at a time.
BeginMigration(t) ==
    /\ dsThread[t].at = "apply" /\ t[1] \notin dsReady
    /\ IF dsUp
       THEN /\ dsMigration = NoMigration
            /\ dsMigration' = [holder |-> t, next |-> 1, ledger |-> dsLedger,
                               objects |-> dsObjects]
            /\ Moves(t, "migrating")
       ELSE Moves(t, "refused") /\ UNCHANGED dsMigration
    /\ UNCHANGED <<dsUp, dsLedger, dsObjects, dsCode, dsReady, dsGate, dsTable, dsPools,
                   dsDeployed>>

HashMatches(v, tree) == v <= Len(dsMigration.ledger) => dsMigration.ledger[v] = tree[v]

\* One migration: skipped, refused for its hash, failing, or run and recorded.
ApplyMigration(t, works) ==
    LET tree == dsCode[t[1]].tree
        v == dsMigration.next
    IN  /\ dsThread[t].at = "migrating" /\ v <= Len(tree)
        /\ IF ~HashMatches(v, tree) \/ (v > Len(dsMigration.ledger) /\ ~works)
           THEN dsMigration' = NoMigration /\ Moves(t, "refused")
           ELSE /\ dsMigration' = IF v <= Len(dsMigration.ledger)
                    THEN [dsMigration EXCEPT !.next = v + 1]
                    ELSE [dsMigration EXCEPT !.next = v + 1,
                                             !.ledger = Append(@, tree[v]),
                                             !.objects = @ \cup {v}]
                /\ UNCHANGED dsThread
        /\ UNCHANGED <<dsUp, dsLedger, dsObjects, dsCode, dsReady, dsGate, dsTable, dsPools,
                       dsDeployed>>

CommitMigration(t) ==
    /\ dsThread[t].at = "migrating"
    /\ dsMigration.next > Len(dsCode[t[1]].tree)
    /\ dsLedger' = dsMigration.ledger
    /\ dsObjects' = dsMigration.objects
    /\ dsMigration' = NoMigration
    /\ Moves(t, "status")
    /\ UNCHANGED <<dsUp, dsCode, dsReady, dsGate, dsTable, dsPools, dsDeployed>>

\* postgres_migration_status: the ledger, and then the schema it should have made
ReadLedger(t) ==
    /\ dsThread[t].at = "status" /\ t[1] \notin dsReady
    /\ dsThread' = IF dsUp
            THEN [dsThread EXCEPT ![t].at = "schema", ![t].ledger = dsLedger]
            ELSE [dsThread EXCEPT ![t].at = "refused"]
    /\ UNCHANGED <<dsUp, dsLedger, dsObjects, dsMigration, dsCode, dsReady, dsGate, dsTable,
                   dsPools, dsDeployed>>

\* Mutant of Edited: an edited migration is taken for the applied one.
EditedNever(tree, ledger) == {}

Pending(tree, ledger) == {v \in DOMAIN tree : v > Len(ledger)}
Edited(tree, ledger) == {v \in DOMAIN tree \ Pending(tree, ledger) : ledger[v] # tree[v]}
Migrated(tree, ledger, objects) ==
    ledger # << >> /\ Edited(tree, ledger) = {} /\ 1 \in objects /\ Pending(tree, ledger) = {}

postgres_migration_status(t) ==
    /\ dsThread[t].at = "schema"
    /\ IF Migrated(dsCode[t[1]].tree, dsThread[t].ledger, dsObjects)
       THEN /\ dsReady' = dsReady \cup {t[1]}
            /\ dsGate' = [dsGate EXCEPT ![t[1]] = "nobody"]
            /\ Moves(t, "ready")
       ELSE Moves(t, "refused") /\ UNCHANGED <<dsReady, dsGate>>
    /\ UNCHANGED <<dsUp, dsLedger, dsObjects, dsMigration, dsCode, dsTable, dsPools, dsDeployed>>

----------------------------------------------------------------------------
(* The pools *)

connection_pool(t) ==
    /\ dsThread[t].at = "ready"
    /\ IF dsTable[t[1]] # 0
       THEN /\ dsThread' = [dsThread EXCEPT ![t].at = "held", ![t].pool = dsTable[t[1]]]
            /\ UNCHANGED <<dsTable, dsPools>>
       ELSE /\ Len(dsPools) < MaxPools
            /\ dsPools' = Append(dsPools, "new")
            /\ dsTable' = [dsTable EXCEPT ![t[1]] = Len(dsPools')]
            /\ dsThread' = [dsThread EXCEPT ![t].at = "held", ![t].pool = Len(dsPools')]
    /\ UNCHANGED <<dsUp, dsLedger, dsObjects, dsMigration, dsCode, dsReady, dsGate, dsDeployed>>

\* PostgresPool.open, under its lock.  The first opening waits for connections;
\* when they do not come in time psycopg_pool closes the pool and raises.  A pool
\* that has been closed, in one way or the other, is never opened again.
Opened(pool, answers) ==
    IF pool = "new" THEN (IF answers THEN "open" ELSE "failed") ELSE pool

\* PostgresPool.connection; the server may be up and yet not answer in time.
OpenPool(t, answers) ==
    LET pool == dsThread[t].pool
        opened == Opened(dsPools[pool], answers)
    IN  /\ dsThread[t].at = "held"
        /\ answers => dsUp
        /\ dsPools' = [dsPools EXCEPT ![pool] = opened]
        /\ IF opened = "open" /\ answers
           THEN Moves(t, "using") ELSE dsThread' = [dsThread EXCEPT ![t] = AtRest]
        /\ UNCHANGED <<dsUp, dsLedger, dsObjects, dsMigration, dsCode, dsReady, dsGate, dsTable,
                       dsDeployed>>

ReturnConnection(t) ==
    /\ dsThread[t].at = "using"
    /\ dsThread' = [dsThread EXCEPT ![t] = AtRest]
    /\ UNCHANGED <<dsUp, dsLedger, dsObjects, dsMigration, dsCode, dsReady, dsGate, dsTable,
                   dsPools, dsDeployed>>

\* close_connection_pools, from a worker's loop: a thread empties the table, and
\* then closes.
TakePools(t) ==
    /\ dsThread[t].at = "idle" /\ t[1] \in LoopProcesses /\ dsTable[t[1]] # 0
    /\ dsThread' = [dsThread EXCEPT ![t].at = "closing", ![t].pool = dsTable[t[1]]]
    /\ dsTable' = [dsTable EXCEPT ![t[1]] = 0]
    /\ UNCHANGED <<dsUp, dsLedger, dsObjects, dsMigration, dsCode, dsReady, dsGate, dsPools,
                   dsDeployed>>

\* Closing a pool that is not open, because it never was or is closed, does nothing.
Closed(pool) == IF pool = "open" THEN "closed" ELSE pool

ClosePools(t) ==
    /\ dsThread[t].at = "closing"
    /\ dsPools' = [dsPools EXCEPT ![dsThread[t].pool] = Closed(@)]
    /\ dsThread' = [dsThread EXCEPT ![t] = AtRest]
    /\ UNCHANGED <<dsUp, dsLedger, dsObjects, dsMigration, dsCode, dsReady, dsGate, dsTable,
                   dsDeployed>>

EnsureReady(t) ==
    \/ EnterStartup(t) \/ AlreadyReady(t) \/ Refused(t) \/ BeginMigration(t)
    \/ \E works \in BOOLEAN : ApplyMigration(t, works)
    \/ CommitMigration(t) \/ ReadLedger(t) \/ postgres_migration_status(t)

UsePools(t) ==
    \/ connection_pool(t) \/ (\E answers \in BOOLEAN : OpenPool(t, answers))
    \/ ReturnConnection(t) \/ TakePools(t) \/ ClosePools(t)

dsNext ==
    \/ DatabaseSwitch
    \/ \E p \in Processes, tree \in Trees, mode \in {"check", "apply"} : Redeploy(p, tree, mode)
    \/ \E t \in StartupThreads : EnsureReady(t) \/ UsePools(t)

----------------------------------------------------------------------------
(* Properties *)

\* The tables are well formed, and the readiness lock is held by the thread that is past
\* the gate (ensure_database_ready).
dsTypeOK ==
    /\ dsUp \in BOOLEAN
    /\ dsReady \subseteq Processes
    /\ \A p \in Processes : dsTable[p] \in 0..Len(dsPools) /\ dsCode[p].tree \in Trees
    /\ \A t \in StartupThreads : dsThread[t].pool \in 0..Len(dsPools)
    /\ dsDeployed \in 0..MaxDeployments
    /\ \A t \in StartupThreads :
          dsGate[t[1]] = t[2] <=>
              dsThread[t].at \in {"apply", "migrating", "status", "schema", "refused"}

\* apply_postgres_migrations and ensure_database_ready: the schema holds exactly
\* the migrations of the ledger, whatever died on the way, and a process that
\* believes the database ready has every one of its migrations there.
ReadyMeansMigrated ==
    /\ dsObjects = DOMAIN dsLedger
    /\ \A p \in dsReady : \A v \in DOMAIN dsCode[p].tree :
          v \in dsObjects /\ dsLedger[v] = dsCode[p].tree[v]

\* PostgresPool and close_connection_pools: the table never keeps a pool that was
\* reset, so a pool of the table that cannot be opened is one whose own opening
\* failed; no thread uses a connection of a pool that failed or was never opened,
\* and only a worker's thread that had looked its pool up before a reset uses one
\* that the table no longer has.
PoolsAreSound ==
    /\ \A p \in Processes : dsTable[p] # 0 => dsPools[dsTable[p]] # "closed"
    /\ \A t \in StartupThreads : dsThread[t].at = "using" =>
          \/ dsPools[dsThread[t].pool] = "open" /\ dsTable[t[1]] = dsThread[t].pool
          \/ /\ dsPools[dsThread[t].pool] \in {"open", "closed"}
             /\ dsTable[t[1]] # dsThread[t].pool /\ t[1] \in LoopProcesses

=============================================================================
