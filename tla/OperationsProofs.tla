---------------------------- MODULE OperationsProofs ----------------------------
(***************************************************************************)
(* Proofs about the parts that serve and keep the system running, and      *)
(* about who is let in and what is read back: any number of requests,      *)
(* tokens and guesses, of books, batches and overlapping transactions.     *)
(* MCOperations puts the parts beside each other without a shared          *)
(* variable: each has an inductive invariant of its own, which the steps   *)
(* of the others leave alone.                                              *)
(***************************************************************************)
EXTENDS MCOperations, FiniteSetTheorems, WellFoundedInduction, TLAPS

----------------------------------------------------------------------------
(* DatabaseStartup: the migrations, the readiness cache and the pools. *)

ThreadPlaces == {"idle", "apply", "migrating", "status", "schema", "refused", "ready", "held",
                 "using", "closing"}
PastGate == {"apply", "migrating", "status", "schema", "refused"}
Migrations == [holder : StartupThreads, next : Nat \ {0}, ledger : Seq(STRING),
               objects : SUBSET Nat]

\* Every entry of a ledger is where it was in a later one.
GrewInto(s, l) == Len(s) <= Len(l) /\ \A i \in 1..Len(s) : l[i] = s[i]

StartupShape ==
    /\ dsUp \in BOOLEAN
    /\ dsLedger \in Seq(STRING)
    /\ dsObjects = 1..Len(dsLedger)
    /\ dsMigration \in Migrations \cup {NoMigration}
    /\ dsCode \in [Processes -> [tree : Trees, mode : {"check", "apply"}]]
    /\ dsReady \subseteq Processes
    /\ dsGate \in [Processes -> ThreadNames \cup {"nobody"}]
    /\ dsThread \in [StartupThreads -> [at : ThreadPlaces, ledger : Seq(STRING), pool : Nat]]
    /\ dsTable \in [Processes -> Nat]
    /\ dsPools \in Seq({"new", "open", "closed", "failed"})
    /\ dsDeployed \in 0..MaxDeployments

\* The readiness lock is the thread's that is past the gate.
GateIsHeld ==
    \A t \in StartupThreads : dsGate[t[1]] = t[2] <=> dsThread[t].at \in PastGate

\* The advisory lock is the thread's that migrates: what it read is still the ledger, to
\* which it has added without a gap.
OneMigrates ==
    /\ \A t \in StartupThreads : dsThread[t].at = "migrating" =>
          dsMigration \in Migrations /\ dsMigration.holder = t
    /\ dsMigration \in Migrations =>
          /\ GrewInto(dsLedger, dsMigration.ledger)
          /\ dsMigration.objects = 1..Len(dsMigration.ledger)
          /\ dsMigration.next <= Len(dsMigration.ledger) + 1

\* The ledger a thread has read for its status only grows after that.
LedgerOnlyGrows ==
    \A t \in StartupThreads : dsThread[t].at = "schema" =>
        GrewInto(dsThread[t].ledger, dsLedger)

ReadyIsMigrated == \A p \in dsReady : GrewInto(dsCode[p].tree, dsLedger)

\* A pool is one process's, and one that a thread is about to close is in no table.
PoolsAreUsable ==
    /\ \A p \in Processes : /\ dsTable[p] <= Len(dsPools)
                            /\ dsTable[p] # 0 => dsPools[dsTable[p]] # "closed"
    /\ \A p, q \in Processes : dsTable[p] # 0 /\ dsTable[p] = dsTable[q] => p = q
    /\ \A t \in StartupThreads : dsThread[t].pool <= Len(dsPools)
    /\ \A t \in StartupThreads : dsThread[t].at \in {"held", "closing"} => dsThread[t].pool # 0
    /\ \A t \in StartupThreads : dsThread[t].at = "closing" =>
          \A p \in Processes : dsTable[p] # dsThread[t].pool

StartupInv ==
    StartupShape /\ GateIsHeld /\ OneMigrates /\ LedgerOnlyGrows /\ ReadyIsMigrated
    /\ PoolsAreUsable

LEMMA MigrationIsNoNobody == NoMigration \notin Migrations
  BY SMT DEF NoMigration, Migrations

LEMMA StartupStarts == ASSUME dsInit PROVE StartupInv
  <1> USE StartupAssumption DEF dsInit
  <1>1. StartupShape
    BY DEF StartupShape, AtRest, ThreadPlaces
  <1>2. GateIsHeld
    BY DEF GateIsHeld, AtRest, PastGate, StartupThreads
  <1>3. OneMigrates
    BY MigrationIsNoNobody DEF OneMigrates, AtRest
  <1>4. LedgerOnlyGrows /\ ReadyIsMigrated
    BY DEF LedgerOnlyGrows, ReadyIsMigrated, AtRest
  <1>5. PoolsAreUsable
    BY DEF PoolsAreUsable, AtRest
  <1> QED BY <1>1, <1>2, <1>3, <1>4, <1>5 DEF StartupInv

ThreadStates == [StartupThreads -> [at : ThreadPlaces, ledger : Seq(STRING), pool : Nat]]
OthersStay(t) == \A u \in StartupThreads \ {t} : dsThread'[u] = dsThread[u]

\* A step of one thread leaves the others where they are.
LEMMA ThreadMoves ==
    ASSUME StartupShape, NEW t \in StartupThreads, NEW place \in ThreadPlaces, Moves(t, place)
    PROVE  /\ dsThread' \in ThreadStates
           /\ dsThread'[t].at = place
           /\ dsThread'[t].ledger = dsThread[t].ledger
           /\ dsThread'[t].pool = dsThread[t].pool
           /\ OthersStay(t)
  BY DEF Moves, StartupShape, ThreadStates, OthersStay

LEMMA ThreadRests ==
    ASSUME StartupShape, NEW t \in StartupThreads, dsThread' = [dsThread EXCEPT ![t] = AtRest]
    PROVE  /\ dsThread' \in ThreadStates
           /\ dsThread'[t].at = "idle"
           /\ dsThread'[t].pool = 0
           /\ OthersStay(t)
  BY DEF StartupShape, ThreadStates, OthersStay, AtRest, ThreadPlaces

LEMMA ThreadsArePairs ==
    /\ \A t \in StartupThreads : t[1] \in Processes /\ t[2] \in ThreadNames
    /\ \A t, u \in StartupThreads : t[1] = u[1] /\ t[2] = u[2] => t = u
  BY DEF StartupThreads

\* The lock stays, is taken by the thread that passes, or given back by the one that leaves.
LEMMA GateKept ==
    ASSUME GateIsHeld, NEW t \in StartupThreads, OthersStay(t), dsGate \in [Processes -> ThreadNames \cup {"nobody"}],
           \/ dsGate' = dsGate /\ (dsThread[t].at \in PastGate <=> dsThread'[t].at \in PastGate)
           \/ /\ dsGate[t[1]] = "nobody" /\ dsGate' = [dsGate EXCEPT ![t[1]] = t[2]]
              /\ dsThread'[t].at \in PastGate
           \/ /\ dsThread[t].at \in PastGate /\ dsGate' = [dsGate EXCEPT ![t[1]] = "nobody"]
              /\ dsThread'[t].at \notin PastGate
    PROVE  GateIsHeld' /\ dsGate' \in [Processes -> ThreadNames \cup {"nobody"}]
  <1>1. t[1] \in Processes /\ t[2] \in ThreadNames /\ "nobody" \notin ThreadNames
    BY ThreadsArePairs, StartupAssumption
  <1>2. ASSUME NEW u \in StartupThreads
        PROVE  dsGate'[u[1]] = u[2] <=> dsThread'[u].at \in PastGate
    <2>1. dsGate[u[1]] = u[2] <=> dsThread[u].at \in PastGate
      BY DEF GateIsHeld
    <2>2. dsGate[t[1]] = t[2] <=> dsThread[t].at \in PastGate
      BY DEF GateIsHeld
    <2>3. u[1] \in Processes /\ u[2] \in ThreadNames
      BY ThreadsArePairs
    <2>4. CASE u = t
      BY <1>1, <2>2, <2>4
    <2>5. CASE u # t
      <3>1. dsThread'[u] = dsThread[u] BY <2>5 DEF OthersStay
      <3>2. u[1] # t[1] \/ u[2] # t[2] BY <2>5, ThreadsArePairs
      <3> QED BY <1>1, <2>1, <2>2, <2>3, <3>1, <3>2
    <2> QED BY <2>4, <2>5
  <1> QED BY <1>1, <1>2 DEF GateIsHeld

LEMMA MigrationKept ==
    ASSUME OneMigrates, NEW t \in StartupThreads, OthersStay(t), UNCHANGED <<dsMigration, dsLedger>>,
           dsThread'[t].at # "migrating"
    PROVE  OneMigrates'
  BY DEF OneMigrates, OthersStay

LEMMA GrowthKept ==
    ASSUME LedgerOnlyGrows, NEW t \in StartupThreads, OthersStay(t), UNCHANGED dsLedger,
           dsThread'[t].at # "schema"
    PROVE  LedgerOnlyGrows'
  BY DEF LedgerOnlyGrows, OthersStay, GrewInto

LEMMA ReadinessKept ==
    ASSUME ReadyIsMigrated, UNCHANGED <<dsReady, dsCode, dsLedger>> PROVE ReadyIsMigrated'
  BY DEF ReadyIsMigrated, GrewInto

LEMMA PoolsKept ==
    ASSUME PoolsAreUsable, NEW t \in StartupThreads, OthersStay(t), UNCHANGED <<dsTable, dsPools>>,
           dsPools \in Seq({"new", "open", "closed", "failed"}),
           (dsThread'[t].pool = dsThread[t].pool \/ dsThread'[t].pool = 0),
           dsThread'[t].at \notin {"held", "closing"}
    PROVE  PoolsAreUsable'
  BY DEF PoolsAreUsable, OthersStay

LEMMA ShapeKept ==
    ASSUME StartupShape, dsThread' \in ThreadStates, dsGate' \in [Processes -> ThreadNames \cup {"nobody"}],
           UNCHANGED <<dsUp, dsLedger, dsObjects, dsMigration, dsCode, dsTable, dsPools, dsDeployed>>,
           dsReady' \subseteq Processes
    PROVE  StartupShape'
  BY DEF StartupShape, ThreadStates

LEMMA EnterStartupKeeps ==
    ASSUME StartupInv, NEW t \in StartupThreads, EnterStartup(t) PROVE StartupInv'
  <1>1. PICK place \in {"ready", "apply", "status"} :
          /\ Moves(t, place)
          /\ \/ place = "ready" /\ dsGate' = dsGate
             \/ /\ place # "ready" /\ dsGate[t[1]] = "nobody"
                /\ dsGate' = [dsGate EXCEPT ![t[1]] = t[2]]
    BY DEF EnterStartup
  <1>2. /\ dsThread' \in ThreadStates
        /\ dsThread'[t].at = place
        /\ dsThread'[t].pool = dsThread[t].pool
        /\ OthersStay(t)
    BY <1>1, ThreadMoves DEF StartupInv, ThreadPlaces
  <1>3. GateIsHeld' /\ dsGate' \in [Processes -> ThreadNames \cup {"nobody"}]
    <2>1. dsThread[t].at = "idle" BY DEF EnterStartup
    <2> QED BY <1>1, <1>2, <2>1, GateKept DEF StartupInv, StartupShape, PastGate
  <1>u. UNCHANGED <<dsUp, dsLedger, dsObjects, dsMigration, dsCode, dsReady, dsTable, dsPools,
                    dsDeployed>>
    BY DEF EnterStartup
  <1>4. StartupShape'
    BY <1>2, <1>3, <1>u, ShapeKept DEF StartupInv, StartupShape
  <1>5. dsThread'[t].at \notin {"migrating", "schema", "held", "closing"}
    BY <1>2
  <1>6. OneMigrates'      BY <1>2, <1>5, <1>u, MigrationKept DEF StartupInv
  <1>7. LedgerOnlyGrows'  BY <1>2, <1>5, <1>u, GrowthKept DEF StartupInv
  <1>8. ReadyIsMigrated'  BY <1>u, ReadinessKept DEF StartupInv
  <1>9. PoolsAreUsable'   BY <1>2, <1>5, <1>u, PoolsKept DEF StartupInv, StartupShape
  <1> QED BY <1>3, <1>4, <1>6, <1>7, <1>8, <1>9 DEF StartupInv

LEMMA AlreadyReadyKeeps ==
    ASSUME StartupInv, NEW t \in StartupThreads, AlreadyReady(t) PROVE StartupInv'
  <1>1. /\ Moves(t, "ready") /\ dsGate' = [dsGate EXCEPT ![t[1]] = "nobody"]
        /\ dsThread[t].at \in PastGate
    BY DEF AlreadyReady, PastGate
  <1>2. /\ dsThread' \in ThreadStates
        /\ dsThread'[t].at = "ready"
        /\ dsThread'[t].pool = dsThread[t].pool
        /\ OthersStay(t)
    BY <1>1, ThreadMoves DEF StartupInv, ThreadPlaces
  <1>3. GateIsHeld' /\ dsGate' \in [Processes -> ThreadNames \cup {"nobody"}]
    BY <1>1, <1>2, GateKept DEF StartupInv, StartupShape, PastGate
  <1>u. UNCHANGED <<dsUp, dsLedger, dsObjects, dsMigration, dsCode, dsReady, dsTable, dsPools,
                    dsDeployed>>
    BY DEF AlreadyReady
  <1>4. StartupShape'
    BY <1>2, <1>3, <1>u, ShapeKept DEF StartupInv, StartupShape
  <1>6. OneMigrates'      BY <1>2, <1>u, MigrationKept DEF StartupInv
  <1>7. LedgerOnlyGrows'  BY <1>2, <1>u, GrowthKept DEF StartupInv
  <1>8. ReadyIsMigrated'  BY <1>u, ReadinessKept DEF StartupInv
  <1>9. PoolsAreUsable'   BY <1>2, <1>u, PoolsKept DEF StartupInv, StartupShape
  <1> QED BY <1>3, <1>4, <1>6, <1>7, <1>8, <1>9 DEF StartupInv

LEMMA RefusedKeeps ==
    ASSUME StartupInv, NEW t \in StartupThreads, Refused(t) PROVE StartupInv'
  <1>1. /\ dsThread' = [dsThread EXCEPT ![t] = AtRest]
        /\ dsGate' = [dsGate EXCEPT ![t[1]] = "nobody"]
        /\ dsThread[t].at \in PastGate
    BY DEF Refused, PastGate
  <1>2. /\ dsThread' \in ThreadStates
        /\ dsThread'[t].at = "idle"
        /\ dsThread'[t].pool = 0
        /\ OthersStay(t)
    BY <1>1, ThreadRests DEF StartupInv
  <1>3. GateIsHeld' /\ dsGate' \in [Processes -> ThreadNames \cup {"nobody"}]
    BY <1>1, <1>2, GateKept DEF StartupInv, StartupShape, PastGate
  <1>u. UNCHANGED <<dsUp, dsLedger, dsObjects, dsMigration, dsCode, dsReady, dsTable, dsPools,
                    dsDeployed>>
    BY DEF Refused
  <1>4. StartupShape'
    BY <1>2, <1>3, <1>u, ShapeKept DEF StartupInv, StartupShape
  <1>6. OneMigrates'      BY <1>2, <1>u, MigrationKept DEF StartupInv
  <1>7. LedgerOnlyGrows'  BY <1>2, <1>u, GrowthKept DEF StartupInv
  <1>8. ReadyIsMigrated'  BY <1>u, ReadinessKept DEF StartupInv
  <1>9. PoolsAreUsable'   BY <1>2, <1>u, PoolsKept DEF StartupInv, StartupShape
  <1> QED BY <1>3, <1>4, <1>6, <1>7, <1>8, <1>9 DEF StartupInv

\* With the advisory lock free nobody is migrating, and the ledger is its own prefix.
LEMMA BeginMigrationKeeps ==
    ASSUME StartupInv, NEW t \in StartupThreads, BeginMigration(t) PROVE StartupInv'
  <1>1. PICK place \in {"migrating", "refused"} :
          /\ Moves(t, place)
          /\ \/ place = "refused" /\ dsMigration' = dsMigration
             \/ /\ place = "migrating" /\ dsMigration = NoMigration
                /\ dsMigration' = [holder |-> t, next |-> 1, ledger |-> dsLedger,
                                   objects |-> dsObjects]
    BY DEF BeginMigration
  <1>2. /\ dsThread' \in ThreadStates
        /\ dsThread'[t].at = place
        /\ dsThread'[t].pool = dsThread[t].pool
        /\ OthersStay(t)
    BY <1>1, ThreadMoves DEF StartupInv, ThreadPlaces
  <1>u. UNCHANGED <<dsUp, dsLedger, dsObjects, dsCode, dsReady, dsGate, dsTable, dsPools,
                    dsDeployed>>
    BY DEF BeginMigration
  <1>3. GateIsHeld' /\ dsGate' \in [Processes -> ThreadNames \cup {"nobody"}]
    <2>1. dsThread[t].at = "apply" BY DEF BeginMigration
    <2> QED BY <1>1, <1>2, <1>u, <2>1, GateKept DEF StartupInv, StartupShape, PastGate
  <1>m. dsMigration' \in Migrations \cup {NoMigration}
    BY <1>1 DEF StartupInv, StartupShape, Migrations
  <1>4. StartupShape'
    BY <1>2, <1>3, <1>u, <1>m DEF StartupInv, StartupShape, ThreadStates
  <1>5. dsThread'[t].at \notin {"schema", "held", "closing"}
    BY <1>2
  <1>6. OneMigrates'
    <2>1. CASE place = "refused"
      BY <1>1, <1>2, <1>u, <2>1, MigrationKept DEF StartupInv
    <2>2. CASE place = "migrating"
      <3>1. \A u \in StartupThreads : dsThread[u].at # "migrating"
        BY <1>1, <2>2, MigrationIsNoNobody DEF StartupInv, OneMigrates
      <3>2. \A u \in StartupThreads : dsThread'[u].at = "migrating" => u = t
        BY <1>2, <3>1 DEF OthersStay
      <3>3. dsMigration' \in Migrations /\ dsMigration'.holder = t
        BY <1>1, <2>2 DEF StartupInv, StartupShape, Migrations
      <3>4. /\ dsMigration'.ledger = dsLedger' /\ dsMigration'.objects = 1..Len(dsLedger')
            /\ dsMigration'.next = 1
        BY <1>1, <1>u, <2>2 DEF StartupInv, StartupShape
      <3>5. Len(dsLedger') \in Nat
        BY <1>u DEF StartupInv, StartupShape
      <3> QED BY <3>2, <3>3, <3>4, <3>5 DEF OneMigrates, GrewInto
    <2> QED BY <1>1, <2>1, <2>2
  <1>7. LedgerOnlyGrows'  BY <1>2, <1>5, <1>u, GrowthKept DEF StartupInv
  <1>8. ReadyIsMigrated'  BY <1>u, ReadinessKept DEF StartupInv
  <1>9. PoolsAreUsable'   BY <1>2, <1>5, <1>u, PoolsKept DEF StartupInv, StartupShape
  <1> QED BY <1>3, <1>4, <1>6, <1>7, <1>8, <1>9 DEF StartupInv

\* A version is skipped, or run as the next entry of the ledger.
LEMMA ApplyMigrationKeeps ==
    ASSUME StartupInv, NEW t \in StartupThreads, NEW works \in BOOLEAN, ApplyMigration(t, works)
    PROVE  StartupInv'
  <1> DEFINE tree == dsCode[t[1]].tree
             v == dsMigration.next
             m == dsMigration
  <1>m. /\ m \in Migrations /\ m.holder = t
        /\ GrewInto(dsLedger, m.ledger) /\ m.objects = 1..Len(m.ledger)
        /\ v <= Len(m.ledger) + 1
    BY DEF ApplyMigration, StartupInv, OneMigrates
  <1>t. /\ v \in Nat \ {0} /\ m.ledger \in Seq(STRING) /\ Len(m.ledger) \in Nat
        /\ m.objects \in SUBSET Nat
        /\ tree \in Seq(STRING) /\ v \in 1..Len(tree) /\ tree[v] \in STRING
    <2>1. v \in Nat \ {0} /\ m.ledger \in Seq(STRING) /\ m.objects \in SUBSET Nat
      BY <1>m DEF Migrations
    <2>2. t[1] \in Processes BY ThreadsArePairs
    <2>3. tree \in Seq(STRING)
      BY <2>2, StartupAssumption DEF StartupInv, StartupShape
    <2>4. v <= Len(tree) BY DEF ApplyMigration
    <2> QED BY <2>1, <2>3, <2>4
  <1>u. UNCHANGED <<dsUp, dsLedger, dsObjects, dsCode, dsReady, dsGate, dsTable, dsPools,
                    dsDeployed>>
    BY DEF ApplyMigration
  <1>at. dsThread[t].at = "migrating" BY DEF ApplyMigration
  <1>1. CASE dsMigration' = NoMigration /\ Moves(t, "refused")
    <2>2. /\ dsThread' \in ThreadStates
          /\ dsThread'[t].at = "refused"
          /\ dsThread'[t].pool = dsThread[t].pool
          /\ OthersStay(t)
      BY <1>1, ThreadMoves DEF StartupInv, ThreadPlaces
    <2>3. GateIsHeld'
      BY <1>u, <1>at, <2>2, GateKept DEF StartupInv, StartupShape, PastGate
    <2>4. StartupShape'
      BY <1>1, <1>u, <2>2 DEF StartupInv, StartupShape, ThreadStates
    <2>5. \A u \in StartupThreads : dsThread'[u].at # "migrating"
      BY <1>m, <2>2 DEF StartupInv, OneMigrates, OthersStay
    <2>6. OneMigrates'
      BY <1>1, <2>5, MigrationIsNoNobody DEF OneMigrates
    <2>7. LedgerOnlyGrows'  BY <2>2, <1>u, GrowthKept DEF StartupInv
    <2>8. ReadyIsMigrated'  BY <1>u, ReadinessKept DEF StartupInv
    <2>9. PoolsAreUsable'   BY <2>2, <1>u, PoolsKept DEF StartupInv, StartupShape
    <2> QED BY <2>3, <2>4, <2>6, <2>7, <2>8, <2>9 DEF StartupInv
  <1>2. CASE /\ UNCHANGED dsThread
             /\ dsMigration' = IF v <= Len(m.ledger)
                  THEN [m EXCEPT !.next = v + 1]
                  ELSE [m EXCEPT !.next = v + 1, !.ledger = Append(@, tree[v]),
                                 !.objects = @ \cup {v}]
    <2> DEFINE n == dsMigration'
    <2>1. /\ n \in Migrations /\ n.holder = t
          /\ GrewInto(dsLedger, n.ledger) /\ n.objects = 1..Len(n.ledger)
          /\ n.next <= Len(n.ledger) + 1
      <3>1. CASE v <= Len(m.ledger)
        <4>1. n = [m EXCEPT !.next = v + 1] BY <1>2, <3>1
        <4>0. v + 1 \in Nat \ {0} BY <1>t
        <4>2. /\ n.holder = m.holder /\ n.ledger = m.ledger /\ n.objects = m.objects
              /\ n.next = v + 1 /\ n \in Migrations
          BY <1>m, <4>0, <4>1 DEF Migrations
        <4> QED BY <1>m, <1>t, <3>1, <4>2
      <3>2. CASE ~ (v <= Len(m.ledger))
        <4>1. n = [m EXCEPT !.next = v + 1, !.ledger = Append(m.ledger, tree[v]),
                            !.objects = m.objects \cup {v}]
          BY <1>2, <3>2, Zenon
        <4>2. Append(m.ledger, tree[v]) \in Seq(STRING) /\ v + 1 \in Nat \ {0}
              /\ m.objects \cup {v} \in SUBSET Nat
          BY <1>t
        <4>3. /\ n.holder = m.holder /\ n.ledger = Append(m.ledger, tree[v])
              /\ n.objects = m.objects \cup {v} /\ n.next = v + 1 /\ n \in Migrations
          BY <1>m, <4>1, <4>2 DEF Migrations
        <4>4. v = Len(m.ledger) + 1 BY <1>m, <1>t, <3>2
        <4>5. Len(n.ledger) = v /\ \A i \in 1..Len(m.ledger) : n.ledger[i] = m.ledger[i]
          BY <1>t, <4>3, <4>4
        <4>6. n.objects = 1..v
          BY <1>m, <1>t, <4>3, <4>4
        <4>7. Len(dsLedger) \in Nat BY DEF StartupInv, StartupShape
        <4>8. GrewInto(dsLedger, n.ledger)
          <5>1. /\ Len(dsLedger) <= Len(m.ledger)
                /\ \A i \in 1..Len(dsLedger) : m.ledger[i] = dsLedger[i]
            BY <1>m DEF GrewInto
          <5> HIDE DEF m, n
          <5>2. Len(dsLedger) <= Len(n.ledger)
            BY <1>t, <4>4, <4>5, <4>7, <5>1
          <5>3. \A i \in 1..Len(dsLedger) : n.ledger[i] = dsLedger[i]
            BY <1>t, <4>5, <4>7, <5>1
          <5> QED BY <5>2, <5>3 DEF GrewInto
        <4> QED BY <1>m, <1>t, <4>3, <4>5, <4>6, <4>8
      <3> QED BY <3>1, <3>2
    <2>3. GateIsHeld' BY <1>2, <1>u DEF StartupInv, GateIsHeld
    <2>4. StartupShape'
      BY <1>2, <1>u, <2>1 DEF StartupInv, StartupShape
    <2>5. \A u \in StartupThreads : dsThread'[u].at = "migrating" => u = t
      BY <1>2, <1>m DEF StartupInv, OneMigrates
    <2>6. OneMigrates'
      BY <1>u, <2>1, <2>5 DEF OneMigrates, GrewInto
    <2>7. LedgerOnlyGrows'  BY <1>2, <1>u DEF StartupInv, LedgerOnlyGrows, GrewInto
    <2>8. ReadyIsMigrated'  BY <1>u, ReadinessKept DEF StartupInv
    <2>9. PoolsAreUsable'   BY <1>2, <1>u DEF StartupInv, PoolsAreUsable
    <2> QED BY <2>3, <2>4, <2>6, <2>7, <2>8, <2>9 DEF StartupInv
  <1> QED BY <1>1, <1>2 DEF ApplyMigration

LEMMA GrewIntoTransitive ==
    ASSUME NEW r \in Seq(STRING), NEW s \in Seq(STRING), NEW u \in Seq(STRING),
           GrewInto(r, s), GrewInto(s, u)
    PROVE  GrewInto(r, u)
  BY DEF GrewInto

\* The new ledger is the one the transaction began from, with more at its end.
LEMMA CommitMigrationKeeps ==
    ASSUME StartupInv, NEW t \in StartupThreads, CommitMigration(t) PROVE StartupInv'
  <1>1. /\ Moves(t, "status") /\ dsMigration' = NoMigration /\ dsThread[t].at = "migrating"
        /\ dsLedger' = dsMigration.ledger /\ dsObjects' = dsMigration.objects
    BY DEF CommitMigration
  <1>m. /\ dsMigration \in Migrations /\ dsMigration.holder = t
        /\ GrewInto(dsLedger, dsLedger') /\ dsObjects' = 1..Len(dsLedger')
        /\ dsLedger' \in Seq(STRING) /\ dsLedger \in Seq(STRING)
    <2>1. /\ dsMigration \in Migrations /\ dsMigration.holder = t
          /\ GrewInto(dsLedger, dsMigration.ledger)
          /\ dsMigration.objects = 1..Len(dsMigration.ledger)
      BY <1>1 DEF StartupInv, OneMigrates
    <2>2. dsMigration.ledger \in Seq(STRING) /\ dsLedger \in Seq(STRING)
      BY <2>1 DEF Migrations, StartupInv, StartupShape
    <2> QED BY <1>1, <2>1, <2>2
  <1>2. /\ dsThread' \in ThreadStates
        /\ dsThread'[t].at = "status"
        /\ dsThread'[t].pool = dsThread[t].pool
        /\ OthersStay(t)
    BY <1>1, ThreadMoves DEF StartupInv, ThreadPlaces
  <1>u. UNCHANGED <<dsUp, dsCode, dsReady, dsGate, dsTable, dsPools, dsDeployed>>
    BY DEF CommitMigration
  <1>3. GateIsHeld'
    BY <1>u, <1>1, <1>2, GateKept DEF StartupInv, StartupShape, PastGate
  <1>4. StartupShape'
    BY <1>1, <1>2, <1>u, <1>m DEF StartupInv, StartupShape, ThreadStates
  <1>5. \A u \in StartupThreads : dsThread'[u].at # "migrating"
    BY <1>1, <1>2 DEF StartupInv, OneMigrates, OthersStay
  <1>6. OneMigrates'
    BY <1>1, <1>5, MigrationIsNoNobody DEF OneMigrates
  <1>7. LedgerOnlyGrows'
    <2> SUFFICES ASSUME NEW u \in StartupThreads, dsThread'[u].at = "schema"
                 PROVE  GrewInto(dsThread'[u].ledger, dsLedger')
      BY DEF LedgerOnlyGrows, GrewInto
    <2>1. u # t /\ dsThread'[u] = dsThread[u] BY <1>2 DEF OthersStay
    <2>2. GrewInto(dsThread[u].ledger, dsLedger)
      BY <2>1 DEF StartupInv, LedgerOnlyGrows
    <2>3. dsThread[u].ledger \in Seq(STRING)
      BY DEF StartupInv, StartupShape
    <2> QED BY <1>m, <2>1, <2>2, <2>3, GrewIntoTransitive
  <1>8. ReadyIsMigrated'
    <2> SUFFICES ASSUME NEW p \in dsReady PROVE GrewInto(dsCode[p].tree, dsLedger')
      BY <1>u DEF ReadyIsMigrated, GrewInto
    <2>1. p \in Processes /\ GrewInto(dsCode[p].tree, dsLedger)
      BY DEF StartupInv, StartupShape, ReadyIsMigrated
    <2>2. dsCode[p].tree \in Seq(STRING)
      BY <2>1, StartupAssumption DEF StartupInv, StartupShape
    <2> QED BY <1>m, <2>1, <2>2, GrewIntoTransitive
  <1>9. PoolsAreUsable'   BY <1>2, <1>u, PoolsKept DEF StartupInv, StartupShape
  <1> QED BY <1>3, <1>4, <1>6, <1>7, <1>8, <1>9 DEF StartupInv

\* What is read is the ledger of that moment.
LEMMA ReadLedgerKeeps ==
    ASSUME StartupInv, NEW t \in StartupThreads, ReadLedger(t) PROVE StartupInv'
  <1>1. /\ dsThread' \in ThreadStates
        /\ dsThread'[t].at \in {"schema", "refused"}
        /\ dsThread'[t].at = "schema" => dsThread'[t].ledger = dsLedger
        /\ dsThread'[t].pool = dsThread[t].pool
        /\ OthersStay(t)
    BY DEF ReadLedger, StartupInv, StartupShape, ThreadStates, ThreadPlaces, OthersStay
  <1>u. UNCHANGED <<dsUp, dsLedger, dsObjects, dsMigration, dsCode, dsReady, dsGate, dsTable,
                    dsPools, dsDeployed>>
    BY DEF ReadLedger
  <1>3. GateIsHeld'
    <2>1. dsThread[t].at = "status" BY DEF ReadLedger
    <2> QED BY <1>u, <1>1, <2>1, GateKept DEF StartupInv, StartupShape, PastGate
  <1>4. StartupShape'
    BY <1>1, <1>u DEF StartupInv, StartupShape, ThreadStates
  <1>6. OneMigrates'      BY <1>1, <1>u, MigrationKept DEF StartupInv
  <1>7. LedgerOnlyGrows'
    <2> SUFFICES ASSUME NEW u \in StartupThreads, dsThread'[u].at = "schema"
                 PROVE  GrewInto(dsThread'[u].ledger, dsLedger)
      BY <1>u DEF LedgerOnlyGrows, GrewInto
    <2>1. CASE u = t
      <3>1. Len(dsLedger) <= Len(dsLedger) BY DEF StartupInv, StartupShape
      <3> QED BY <1>1, <2>1, <3>1 DEF GrewInto
    <2>2. CASE u # t
      BY <1>1, <2>2 DEF StartupInv, LedgerOnlyGrows, OthersStay
    <2> QED BY <2>1, <2>2
  <1>8. ReadyIsMigrated'  BY <1>u, ReadinessKept DEF StartupInv
  <1>9. PoolsAreUsable'   BY <1>1, <1>u, PoolsKept DEF StartupInv, StartupShape
  <1> QED BY <1>3, <1>4, <1>6, <1>7, <1>8, <1>9 DEF StartupInv

\* Nothing pending and nothing edited: the tree is a prefix of the ledger.
LEMMA MigratedGrewInto ==
    ASSUME NEW tree \in Seq(STRING), NEW ledger \in Seq(STRING), NEW objects,
           Migrated(tree, ledger, objects)
    PROVE  GrewInto(tree, ledger)
  <1>1. Pending(tree, ledger) = {} /\ Edited(tree, ledger) = {}
    BY DEF Migrated
  <1>2. \A v \in DOMAIN tree : ~ (v > Len(ledger))
    BY <1>1 DEF Pending
  <1>3. \A v \in DOMAIN tree : ledger[v] = tree[v]
    BY <1>1 DEF Edited
  <1>4. Len(tree) <= Len(ledger)
    BY <1>2
  <1> QED BY <1>3, <1>4 DEF GrewInto

LEMMA StatusKeeps ==
    ASSUME StartupInv, NEW t \in StartupThreads, postgres_migration_status(t) PROVE StartupInv'
  <1>u. UNCHANGED <<dsUp, dsLedger, dsObjects, dsMigration, dsCode, dsTable, dsPools, dsDeployed>>
    BY DEF postgres_migration_status
  <1>p. t[1] \in Processes /\ dsThread[t].at = "schema"
    BY ThreadsArePairs DEF postgres_migration_status
  <1>1. PICK place \in {"ready", "refused"} :
          /\ Moves(t, place)
          /\ \/ place = "refused" /\ UNCHANGED <<dsReady, dsGate>>
             \/ /\ place = "ready" /\ dsReady' = dsReady \cup {t[1]}
                /\ dsGate' = [dsGate EXCEPT ![t[1]] = "nobody"]
                /\ Migrated(dsCode[t[1]].tree, dsThread[t].ledger, dsObjects)
    BY DEF postgres_migration_status
  <1>2. /\ dsThread' \in ThreadStates
        /\ dsThread'[t].at = place
        /\ dsThread'[t].pool = dsThread[t].pool
        /\ OthersStay(t)
    BY <1>1, ThreadMoves DEF StartupInv, ThreadPlaces
  <1>3. GateIsHeld' /\ dsGate' \in [Processes -> ThreadNames \cup {"nobody"}]
    BY <1>1, <1>2, <1>p, GateKept DEF StartupInv, StartupShape, PastGate
  <1>r. dsReady' \subseteq Processes
    BY <1>1, <1>p DEF StartupInv, StartupShape
  <1>4. StartupShape'
    BY <1>2, <1>3, <1>r, <1>u, ShapeKept DEF StartupInv
  <1>5. dsThread'[t].at \notin {"migrating", "schema", "held", "closing"}
    BY <1>2
  <1>6. OneMigrates'      BY <1>2, <1>5, <1>u, MigrationKept DEF StartupInv
  <1>7. LedgerOnlyGrows'  BY <1>2, <1>5, <1>u, GrowthKept DEF StartupInv
  <1>8. ReadyIsMigrated'
    <2>1. CASE UNCHANGED dsReady
      BY <1>u, <2>1, ReadinessKept DEF StartupInv
    <2>2. CASE /\ dsReady' = dsReady \cup {t[1]}
               /\ Migrated(dsCode[t[1]].tree, dsThread[t].ledger, dsObjects)
      <3>1. /\ dsCode[t[1]].tree \in Seq(STRING) /\ dsThread[t].ledger \in Seq(STRING)
            /\ dsLedger \in Seq(STRING)
        BY <1>p, StartupAssumption DEF StartupInv, StartupShape
      <3>2. GrewInto(dsThread[t].ledger, dsLedger)
        BY <1>p DEF StartupInv, LedgerOnlyGrows
      <3>3. GrewInto(dsCode[t[1]].tree, dsLedger)
        BY <2>2, <3>1, <3>2, MigratedGrewInto, GrewIntoTransitive
      <3>4. \A p \in dsReady' : GrewInto(dsCode[p].tree, dsLedger)
        BY <2>2, <3>3 DEF StartupInv, ReadyIsMigrated
      <3> QED BY <1>u, <3>4 DEF ReadyIsMigrated, GrewInto
    <2> QED BY <1>1, <2>1, <2>2
  <1>9. PoolsAreUsable'   BY <1>2, <1>5, <1>u, PoolsKept DEF StartupInv, StartupShape
  <1> QED BY <1>3, <1>4, <1>6, <1>7, <1>8, <1>9 DEF StartupInv

PoolStates == {"new", "open", "closed", "failed"}

\* A step of a thread that has passed the gate touches the thread, the table and the pools.
LEMMA PoolStep ==
    ASSUME StartupInv, NEW t \in StartupThreads, OthersStay(t), dsThread' \in ThreadStates,
           dsThread[t].at \notin PastGate, dsThread'[t].at \notin PastGate,
           UNCHANGED <<dsUp, dsLedger, dsObjects, dsMigration, dsCode, dsReady, dsGate, dsDeployed>>,
           dsTable' \in [Processes -> Nat], dsPools' \in Seq(PoolStates), PoolsAreUsable'
    PROVE  StartupInv'
  <1>3. GateIsHeld'
    BY GateKept DEF StartupInv, StartupShape
  <1>4. StartupShape'
    BY DEF StartupInv, StartupShape, ThreadStates, PoolStates
  <1>5. dsThread'[t].at \notin {"migrating", "schema"}
    BY DEF PastGate
  <1>6. OneMigrates'      BY <1>5, MigrationKept DEF StartupInv
  <1>7. LedgerOnlyGrows'  BY <1>5, GrowthKept DEF StartupInv
  <1>8. ReadyIsMigrated'  BY ReadinessKept DEF StartupInv
  <1> QED BY <1>3, <1>4, <1>6, <1>7, <1>8 DEF StartupInv

LEMMA ConnectionPoolKeeps ==
    ASSUME StartupInv, NEW t \in StartupThreads, connection_pool(t) PROVE StartupInv'
  <1>p. /\ t[1] \in Processes /\ dsThread[t].at = "ready"
        /\ dsTable \in [Processes -> Nat] /\ dsPools \in Seq(PoolStates) /\ Len(dsPools) \in Nat
    BY ThreadsArePairs DEF connection_pool, StartupInv, StartupShape, PoolStates
  <1>u. UNCHANGED <<dsUp, dsLedger, dsObjects, dsMigration, dsCode, dsReady, dsGate, dsDeployed>>
    BY DEF connection_pool
  <1>1. PICK n \in Nat \ {0} :
          /\ dsThread' = [dsThread EXCEPT ![t].at = "held", ![t].pool = n]
          /\ \/ n = dsTable[t[1]] /\ UNCHANGED <<dsTable, dsPools>>
             \/ /\ n = Len(dsPools) + 1 /\ dsPools' = Append(dsPools, "new")
                /\ dsTable' = [dsTable EXCEPT ![t[1]] = n]
    <2>1. CASE dsTable[t[1]] # 0
      BY <1>p, <2>1 DEF connection_pool
    <2>2. CASE dsTable[t[1]] = 0
      <3>1. /\ dsPools' = Append(dsPools, "new")
            /\ dsTable' = [dsTable EXCEPT ![t[1]] = Len(dsPools')]
            /\ dsThread' = [dsThread EXCEPT ![t].at = "held", ![t].pool = Len(dsPools')]
        BY <2>2 DEF connection_pool
      <3>2. Len(dsPools') = Len(dsPools) + 1 BY <1>p, <3>1 DEF PoolStates
      <3>3. Len(dsPools) + 1 \in Nat \ {0} BY <1>p
      <3> QED BY <3>1, <3>2, <3>3
    <2> QED BY <2>1, <2>2
  <1>2. /\ dsThread' \in ThreadStates
        /\ dsThread'[t].at = "held" /\ dsThread'[t].pool = n
        /\ OthersStay(t)
    <2>1. dsThread' = [dsThread EXCEPT ![t].at = "held", ![t].pool = n] /\ n \in Nat
      BY <1>1
    <2> QED BY <2>1 DEF StartupInv, StartupShape, ThreadStates, ThreadPlaces, OthersStay
  <1>3. PoolsAreUsable'
    <2>1. CASE n = dsTable[t[1]] /\ UNCHANGED <<dsTable, dsPools>>
      BY <1>p, <1>2, <2>1 DEF StartupInv, PoolsAreUsable, OthersStay
    <2>2. CASE /\ n = Len(dsPools) + 1 /\ dsPools' = Append(dsPools, "new")
               /\ dsTable' = [dsTable EXCEPT ![t[1]] = n]
      <3>1. /\ Len(dsPools') = n /\ dsPools'[n] = "new"
            /\ \A k \in 1..Len(dsPools) : dsPools'[k] = dsPools[k]
        BY <1>p, <2>2 DEF PoolStates
      <3>2. \A q \in Processes : q # t[1] => dsTable'[q] = dsTable[q]
        BY <1>p, <2>2
      <3>3. dsTable'[t[1]] = n
        BY <1>p, <2>2
      <3>4. \A q \in Processes : dsTable[q] \in 0..Len(dsPools)
        BY <1>p DEF StartupInv, PoolsAreUsable
      <3>5. \A q \in Processes : /\ dsTable'[q] <= Len(dsPools')
                                 /\ dsTable'[q] # 0 => dsPools'[dsTable'[q]] # "closed"
        BY <1>p, <2>2, <3>1, <3>2, <3>3, <3>4 DEF StartupInv, PoolsAreUsable
      <3>6. \A q, r \in Processes : dsTable'[q] # 0 /\ dsTable'[q] = dsTable'[r] => q = r
        BY <1>p, <2>2, <3>2, <3>3, <3>4 DEF StartupInv, PoolsAreUsable
      <3>7. \A u \in StartupThreads : u # t => dsThread[u].pool \in 0..Len(dsPools)
        BY <1>p DEF StartupInv, StartupShape, PoolsAreUsable
      <3>8. \A u \in StartupThreads :
              /\ dsThread'[u].pool <= Len(dsPools')
              /\ dsThread'[u].at \in {"held", "closing"} => dsThread'[u].pool # 0
        BY <1>p, <1>2, <2>2, <3>1, <3>7 DEF StartupInv, PoolsAreUsable, OthersStay
      <3>9. \A u \in StartupThreads : dsThread'[u].at = "closing" =>
              \A q \in Processes : dsTable'[q] # dsThread'[u].pool
        BY <1>p, <1>2, <2>2, <3>2, <3>3, <3>7 DEF StartupInv, PoolsAreUsable, OthersStay
      <3> QED BY <3>5, <3>6, <3>8, <3>9 DEF PoolsAreUsable
    <2> QED BY <1>1, <2>1, <2>2
  <1>4. dsTable' \in [Processes -> Nat] /\ dsPools' \in Seq(PoolStates)
    <2>1. CASE UNCHANGED <<dsTable, dsPools>>
      BY <1>p, <2>1
    <2>2. CASE /\ n = Len(dsPools) + 1 /\ dsPools' = Append(dsPools, "new")
               /\ dsTable' = [dsTable EXCEPT ![t[1]] = n]
      BY <1>p, <2>2 DEF PoolStates
    <2> QED BY <1>1, <2>1, <2>2
  <1> QED BY <1>p, <1>u, <1>2, <1>3, <1>4, PoolStep DEF PastGate

\* A pool that is opened or closed is not in the table as a closed one.
LEMMA OpenPoolKeeps ==
    ASSUME StartupInv, NEW t \in StartupThreads, NEW answers \in BOOLEAN, OpenPool(t, answers)
    PROVE  StartupInv'
  <1> DEFINE pool == dsThread[t].pool
  <1>p. /\ dsThread[t].at = "held" /\ dsTable \in [Processes -> Nat]
        /\ dsPools \in Seq(PoolStates) /\ Len(dsPools) \in Nat /\ pool \in 1..Len(dsPools)
    <2>1. dsThread[t].at = "held" /\ pool \in Nat
      BY DEF OpenPool, StartupInv, StartupShape
    <2>2. pool # 0 /\ pool <= Len(dsPools)
      BY <2>1 DEF StartupInv, PoolsAreUsable
    <2> QED BY <2>1, <2>2 DEF StartupInv, StartupShape, PoolStates
  <1>u. UNCHANGED <<dsUp, dsLedger, dsObjects, dsMigration, dsCode, dsReady, dsGate, dsTable, dsDeployed>>
    BY DEF OpenPool
  <1>1. Moves(t, "using") \/ dsThread' = [dsThread EXCEPT ![t] = AtRest]
    BY DEF OpenPool
  <1>2. /\ dsThread' \in ThreadStates
        /\ dsThread'[t].at \in {"using", "idle"}
        /\ dsThread'[t].pool \in {0, pool}
        /\ OthersStay(t)
    BY <1>1, ThreadMoves, ThreadRests DEF StartupInv, ThreadPlaces
  <1>4. /\ dsPools' \in Seq(PoolStates) /\ Len(dsPools') = Len(dsPools)
        /\ \A k \in 1..Len(dsPools) : dsPools'[k] \in {dsPools[k], "open", "failed"}
    <2>1. PICK opened \in {dsPools[pool], "open", "failed"} :
            dsPools' = [dsPools EXCEPT ![pool] = opened]
      BY DEF OpenPool, Opened
    <2> QED BY <1>p, <2>1 DEF PoolStates
  <1>3. PoolsAreUsable'
    <2>1. \A q \in Processes : /\ dsTable'[q] <= Len(dsPools')
                               /\ dsTable'[q] # 0 => dsPools'[dsTable'[q]] # "closed"
      BY <1>p, <1>u, <1>4 DEF StartupInv, PoolsAreUsable
    <2>2. \A u \in StartupThreads :
            /\ dsThread'[u].pool <= Len(dsPools')
            /\ dsThread'[u].at \in {"held", "closing"} => u # t /\ dsThread'[u].pool # 0
      BY <1>p, <1>2, <1>4 DEF StartupInv, PoolsAreUsable, OthersStay
    <2> QED BY <1>2, <1>u, <2>1, <2>2 DEF StartupInv, PoolsAreUsable, OthersStay
  <1> QED BY <1>p, <1>u, <1>2, <1>3, <1>4, PoolStep DEF PastGate

LEMMA ReturnConnectionKeeps ==
    ASSUME StartupInv, NEW t \in StartupThreads, ReturnConnection(t) PROVE StartupInv'
  <1>1. /\ dsThread' \in ThreadStates /\ dsThread'[t].at = "idle"
        /\ dsThread'[t].pool = 0 /\ OthersStay(t)
    BY ThreadRests DEF StartupInv, ReturnConnection
  <1>u. UNCHANGED <<dsUp, dsLedger, dsObjects, dsMigration, dsCode, dsReady, dsGate, dsTable,
                    dsPools, dsDeployed>>
    BY DEF ReturnConnection
  <1>2. PoolsAreUsable'
    BY <1>1, <1>u, PoolsKept DEF StartupInv, StartupShape
  <1>3. dsTable' \in [Processes -> Nat] /\ dsPools' \in Seq(PoolStates)
    BY <1>u DEF StartupInv, StartupShape, PoolStates
  <1>4. dsThread[t].at = "using" BY DEF ReturnConnection
  <1> QED BY <1>1, <1>2, <1>3, <1>4, <1>u, PoolStep DEF PastGate

\* The pool leaves the table when the thread that will close it takes it.
LEMMA TakePoolsKeeps ==
    ASSUME StartupInv, NEW t \in StartupThreads, TakePools(t) PROVE StartupInv'
  <1>p. /\ t[1] \in Processes /\ dsThread[t].at = "idle" /\ dsTable[t[1]] # 0
        /\ dsTable \in [Processes -> Nat] /\ dsPools \in Seq(PoolStates)
    BY ThreadsArePairs DEF TakePools, StartupInv, StartupShape, PoolStates
  <1>u. UNCHANGED <<dsUp, dsLedger, dsObjects, dsMigration, dsCode, dsReady, dsGate, dsPools,
                    dsDeployed>>
    BY DEF TakePools
  <1>t. dsTable' = [dsTable EXCEPT ![t[1]] = 0]
    BY DEF TakePools
  <1>1. /\ dsThread' \in ThreadStates
        /\ dsThread'[t].at = "closing" /\ dsThread'[t].pool = dsTable[t[1]]
        /\ OthersStay(t)
    BY <1>p DEF TakePools, StartupInv, StartupShape, ThreadStates, ThreadPlaces, OthersStay
  <1>2. PoolsAreUsable'
    <2>0. \A q \in Processes : dsTable'[q] = IF q = t[1] THEN 0 ELSE dsTable[q]
      BY <1>p, <1>t
    <2>1. \A q \in Processes : /\ dsTable'[q] <= Len(dsPools')
                               /\ dsTable'[q] # 0 => dsPools'[dsTable'[q]] # "closed"
      BY <1>p, <1>u, <2>0 DEF StartupInv, PoolsAreUsable
    <2>2. \A q, r \in Processes : dsTable'[q] # 0 /\ dsTable'[q] = dsTable'[r] => q = r
      BY <2>0 DEF StartupInv, PoolsAreUsable
    <2>3. \A u \in StartupThreads :
            /\ dsThread'[u].pool <= Len(dsPools')
            /\ dsThread'[u].at \in {"held", "closing"} => dsThread'[u].pool # 0
      BY <1>p, <1>u, <1>1 DEF StartupInv, PoolsAreUsable, OthersStay
    <2>4. \A u \in StartupThreads : dsThread'[u].at = "closing" =>
            \A q \in Processes : dsTable'[q] # dsThread'[u].pool
      <3> SUFFICES ASSUME NEW u \in StartupThreads, dsThread'[u].at = "closing",
                          NEW q \in Processes
                   PROVE  dsTable'[q] # dsThread'[u].pool
        OBVIOUS
      <3>1. CASE u = t
        BY <1>p, <1>1, <2>0, <3>1 DEF StartupInv, PoolsAreUsable
      <3>2. CASE u # t
        <4>1. dsThread'[u] = dsThread[u] BY <1>1, <3>2 DEF OthersStay
        <4>2. dsTable[q] # dsThread[u].pool /\ dsThread[u].pool # 0
          BY <4>1 DEF StartupInv, PoolsAreUsable
        <4> QED BY <2>0, <4>1, <4>2
      <3> QED BY <3>1, <3>2
    <2> QED BY <2>1, <2>2, <2>3, <2>4 DEF PoolsAreUsable
  <1>3. dsTable' \in [Processes -> Nat] /\ dsPools' \in Seq(PoolStates)
    BY <1>p, <1>t, <1>u
  <1> QED BY <1>p, <1>1, <1>2, <1>3, <1>u, PoolStep DEF PastGate

LEMMA ClosePoolsKeeps ==
    ASSUME StartupInv, NEW t \in StartupThreads, ClosePools(t) PROVE StartupInv'
  <1> DEFINE pool == dsThread[t].pool
  <1>p. /\ dsThread[t].at = "closing" /\ dsTable \in [Processes -> Nat]
        /\ dsPools \in Seq(PoolStates) /\ Len(dsPools) \in Nat
        /\ pool \in 1..Len(dsPools) /\ \A q \in Processes : dsTable[q] # pool
    <2>1. /\ dsThread[t].at = "closing" /\ pool \in Nat /\ dsTable \in [Processes -> Nat]
          /\ dsPools \in Seq(PoolStates)
      BY DEF ClosePools, StartupInv, StartupShape, PoolStates
    <2>2. pool # 0 /\ pool <= Len(dsPools) /\ \A q \in Processes : dsTable[q] # pool
      BY <2>1 DEF StartupInv, PoolsAreUsable
    <2> QED BY <2>1, <2>2
  <1>u. UNCHANGED <<dsUp, dsLedger, dsObjects, dsMigration, dsCode, dsReady, dsGate, dsTable, dsDeployed>>
    BY DEF ClosePools
  <1>1. /\ dsThread' \in ThreadStates /\ dsThread'[t].at = "idle"
        /\ dsThread'[t].pool = 0 /\ OthersStay(t)
    BY ThreadRests DEF StartupInv, ClosePools
  <1>4. /\ dsPools' \in Seq(PoolStates) /\ Len(dsPools') = Len(dsPools)
        /\ \A k \in 1..Len(dsPools) : k # pool => dsPools'[k] = dsPools[k]
    <2>1. PICK state \in {dsPools[pool], "closed"} : dsPools' = [dsPools EXCEPT ![pool] = state]
      BY <1>p DEF ClosePools, Closed
    <2> QED BY <1>p, <2>1 DEF PoolStates
  <1>3. PoolsAreUsable'
    <2>1. \A q \in Processes : /\ dsTable'[q] <= Len(dsPools')
                               /\ dsTable'[q] # 0 => dsPools'[dsTable'[q]] # "closed"
      BY <1>p, <1>u, <1>4 DEF StartupInv, PoolsAreUsable
    <2>2. \A u \in StartupThreads :
            /\ dsThread'[u].pool <= Len(dsPools')
            /\ dsThread'[u].at \in {"held", "closing"} => u # t /\ dsThread'[u].pool # 0
      BY <1>p, <1>1, <1>4 DEF StartupInv, PoolsAreUsable, OthersStay
    <2> QED BY <1>1, <1>u, <2>1, <2>2 DEF StartupInv, PoolsAreUsable, OthersStay
  <1> QED BY <1>p, <1>u, <1>1, <1>3, <1>4, PoolStep DEF PastGate

\* The transaction that is open is gone, and the thread that had it fails.
LEMMA DatabaseSwitchKeeps ==
    ASSUME StartupInv, DatabaseSwitch PROVE StartupInv'
  <1>u. /\ UNCHANGED <<dsLedger, dsObjects, dsCode, dsReady, dsGate, dsTable, dsPools, dsDeployed>>
        /\ dsMigration' = NoMigration /\ dsUp' \in BOOLEAN
    BY DEF DatabaseSwitch
  <1>1. /\ dsThread' \in ThreadStates
        /\ \A t \in StartupThreads :
              \/ /\ dsThread[t].at \in {"migrating", "schema"} /\ dsThread'[t].at = "refused"
                 /\ dsThread'[t].pool = dsThread[t].pool
              \/ /\ dsThread[t].at \notin {"migrating", "schema"} /\ dsThread'[t] = dsThread[t]
    <2>1. dsThread' = [t \in StartupThreads |->
            IF dsThread[t].at \in {"migrating", "schema"}
            THEN [dsThread[t] EXCEPT !.at = "refused"] ELSE dsThread[t]]
      BY DEF DatabaseSwitch
    <2>2. "refused" \in ThreadPlaces BY DEF ThreadPlaces
    <2>3. dsThread \in ThreadStates BY DEF StartupInv, StartupShape, ThreadStates
    <2> QED BY <2>1, <2>2, <2>3 DEF ThreadStates
  <1>2. StartupShape'
    BY <1>u, <1>1 DEF StartupInv, StartupShape, ThreadStates
  <1>3. GateIsHeld'
    <2>1. \A t \in StartupThreads : dsThread[t].at \in PastGate <=> dsThread'[t].at \in PastGate
      BY <1>1 DEF PastGate
    <2> QED BY <1>u, <2>1 DEF StartupInv, GateIsHeld
  <1>4. (OneMigrates /\ LedgerOnlyGrows)'
    BY <1>u, <1>1, MigrationIsNoNobody DEF OneMigrates, LedgerOnlyGrows
  <1>5. ReadyIsMigrated' BY <1>u, ReadinessKept DEF StartupInv
  <1>6. PoolsAreUsable'
    <2>1. \A t \in StartupThreads : dsThread'[t].pool = dsThread[t].pool
      BY <1>1
    <2>2. \A t \in StartupThreads : dsThread'[t].at \in {"held", "closing"} =>
            dsThread'[t].at = dsThread[t].at
      BY <1>1
    <2> QED BY <1>u, <2>1, <2>2 DEF StartupInv, PoolsAreUsable
  <1> QED BY <1>2, <1>3, <1>4, <1>5, <1>6 DEF StartupInv

\* The process forgets that the database was ready; its lock, its transaction and its
\* pools end with it.
LEMMA RedeployKeeps ==
    ASSUME StartupInv, NEW p \in Processes, NEW tree \in Trees, NEW mode \in {"check", "apply"},
           Redeploy(p, tree, mode)
    PROVE  StartupInv'
  <1>u. /\ UNCHANGED <<dsUp, dsLedger, dsObjects, dsPools>>
        /\ dsDeployed < MaxDeployments /\ dsDeployed' = dsDeployed + 1
        /\ dsCode' = [dsCode EXCEPT ![p] = [tree |-> tree, mode |-> mode]]
        /\ dsReady' = dsReady \ {p}
        /\ dsGate' = [dsGate EXCEPT ![p] = "nobody"]
        /\ dsTable' = [dsTable EXCEPT ![p] = 0]
    BY DEF Redeploy
  <1>1. /\ dsThread' \in ThreadStates
        /\ \A t \in StartupThreads :
              /\ t[1] = p => dsThread'[t].at = "idle" /\ dsThread'[t].pool = 0
              /\ t[1] # p => dsThread'[t] = dsThread[t]
    <2>1. dsThread' = [t \in StartupThreads |-> IF t[1] = p THEN AtRest ELSE dsThread[t]]
      BY DEF Redeploy
    <2>2. dsThread \in ThreadStates BY DEF StartupInv, StartupShape, ThreadStates
    <2> QED BY <2>1, <2>2 DEF ThreadStates, AtRest, ThreadPlaces
  <1>m. \/ dsMigration' = NoMigration /\ (dsMigration \in Migrations => dsMigration.holder[1] = p)
        \/ dsMigration' = dsMigration /\ dsMigration \in Migrations /\ dsMigration.holder[1] # p
    <2>1. dsMigration \in Migrations \/ dsMigration = NoMigration
      BY DEF StartupInv, StartupShape
    <2>2. dsMigration' = IF dsMigration # NoMigration /\ dsMigration.holder[1] = p
                         THEN NoMigration ELSE dsMigration
      BY DEF Redeploy
    <2> QED BY <2>1, <2>2, MigrationIsNoNobody
  <1>g. \A q \in Processes : dsGate'[q] = IF q = p THEN "nobody" ELSE dsGate[q]
    BY <1>u DEF StartupInv, StartupShape
  <1>b. \A q \in Processes : dsTable'[q] = IF q = p THEN 0 ELSE dsTable[q]
    BY <1>u DEF StartupInv, StartupShape
  <1>c. \A q \in Processes : q # p => dsCode'[q] = dsCode[q]
    BY <1>u DEF StartupInv, StartupShape
  <1>2. StartupShape'
    <2>1. dsCode' \in [Processes -> [tree : Trees, mode : {"check", "apply"}]]
      BY <1>u DEF StartupInv, StartupShape
    <2>2. dsGate' \in [Processes -> ThreadNames \cup {"nobody"}] /\ dsTable' \in [Processes -> Nat]
      BY <1>u DEF StartupInv, StartupShape
    <2>3. dsDeployed' \in 0..MaxDeployments /\ dsReady' \subseteq Processes
      BY <1>u, StartupAssumption DEF StartupInv, StartupShape
    <2>4. dsMigration' \in Migrations \cup {NoMigration}
      BY <1>m
    <2> QED BY <1>u, <1>1, <2>1, <2>2, <2>3, <2>4 DEF StartupInv, StartupShape, ThreadStates
  <1>3. GateIsHeld'
    <2> SUFFICES ASSUME NEW t \in StartupThreads
                 PROVE  dsGate'[t[1]] = t[2] <=> dsThread'[t].at \in PastGate
      BY DEF GateIsHeld
    <2>1. t[1] \in Processes /\ t[2] # "nobody" BY ThreadsArePairs, StartupAssumption
    <2>2. CASE t[1] = p
      BY <1>g, <1>1, <2>1, <2>2 DEF PastGate
    <2>3. CASE t[1] # p
      BY <1>g, <1>1, <2>1, <2>3 DEF StartupInv, GateIsHeld
    <2> QED BY <2>2, <2>3
  <1>4. OneMigrates'
    <2>1. \A t \in StartupThreads : dsThread'[t].at = "migrating" =>
            t[1] # p /\ dsMigration \in Migrations /\ dsMigration.holder = t
      BY <1>1 DEF StartupInv, OneMigrates
    <2>2. \A t \in StartupThreads : dsThread'[t].at = "migrating" =>
            dsMigration' \in Migrations /\ dsMigration'.holder = t
      BY <1>m, <2>1
    <2>3. dsMigration' \in Migrations => dsMigration' = dsMigration
      BY <1>m, MigrationIsNoNobody
    <2> QED BY <1>u, <2>2, <2>3 DEF StartupInv, OneMigrates, GrewInto
  <1>5. LedgerOnlyGrows'
    <2>1. \A t \in StartupThreads : dsThread'[t].at = "schema" => dsThread'[t] = dsThread[t]
      BY <1>1
    <2> QED BY <1>u, <2>1 DEF StartupInv, LedgerOnlyGrows, GrewInto
  <1>6. ReadyIsMigrated'
    <2>1. \A q \in dsReady' : q \in dsReady /\ q # p /\ q \in Processes
      BY <1>u DEF StartupInv, StartupShape
    <2> QED BY <1>u, <1>c, <2>1 DEF StartupInv, ReadyIsMigrated, GrewInto
  <1>7. PoolsAreUsable'
    <2>0. Len(dsPools) \in Nat BY DEF StartupInv, StartupShape
    <2>1. \A q \in Processes : /\ dsTable'[q] <= Len(dsPools')
                               /\ dsTable'[q] # 0 => dsPools'[dsTable'[q]] # "closed"
      BY <1>b, <1>u, <2>0 DEF StartupInv, PoolsAreUsable
    <2>2. \A q, r \in Processes : dsTable'[q] # 0 /\ dsTable'[q] = dsTable'[r] => q = r
      BY <1>b DEF StartupInv, PoolsAreUsable
    <2>3. \A t \in StartupThreads :
            /\ dsThread'[t].pool <= Len(dsPools')
            /\ dsThread'[t].at \in {"held", "closing"} => dsThread'[t] = dsThread[t]
      BY <1>1, <1>u, <2>0 DEF StartupInv, PoolsAreUsable
    <2>4. \A t \in StartupThreads :
            dsThread'[t].at \in {"held", "closing"} => dsThread'[t].pool # 0
      BY <2>3 DEF StartupInv, PoolsAreUsable
    <2>5. \A t \in StartupThreads : dsThread'[t].at = "closing" =>
            \A q \in Processes : dsTable'[q] # dsThread'[t].pool
      BY <1>b, <2>3, <2>4 DEF StartupInv, PoolsAreUsable
    <2> QED BY <2>1, <2>2, <2>3, <2>4, <2>5 DEF PoolsAreUsable
  <1> QED BY <1>2, <1>3, <1>4, <1>5, <1>6, <1>7 DEF StartupInv

LEMMA StartupStep == ASSUME StartupInv, dsNext PROVE StartupInv'
  <1>1. CASE DatabaseSwitch
    BY <1>1, DatabaseSwitchKeeps
  <1>2. ASSUME NEW p \in Processes, NEW tree \in Trees, NEW mode \in {"check", "apply"},
               Redeploy(p, tree, mode)
        PROVE  StartupInv'
    BY <1>2, RedeployKeeps
  <1>3. ASSUME NEW t \in StartupThreads, EnsureReady(t) PROVE StartupInv'
    BY <1>3, EnterStartupKeeps, AlreadyReadyKeeps, RefusedKeeps, BeginMigrationKeeps,
       ApplyMigrationKeeps, CommitMigrationKeeps, ReadLedgerKeeps, StatusKeeps
    DEF EnsureReady
  <1>4. ASSUME NEW t \in StartupThreads, UsePools(t) PROVE StartupInv'
    BY <1>4, ConnectionPoolKeeps, OpenPoolKeeps, ReturnConnectionKeeps, TakePoolsKeeps,
       ClosePoolsKeeps
    DEF UsePools
  <1> QED BY <1>1, <1>2, <1>3, <1>4 DEF dsNext

LEMMA StartupFrame == ASSUME [Next]_vars PROVE [dsNext]_dsVars
  BY DEF Next, StartupFocus, vars

LEMMA StartupUnchanged == ASSUME StartupInv, UNCHANGED dsVars PROVE StartupInv'
  <1>1. StartupShape' BY DEF StartupInv, StartupShape, dsVars
  <1>2. (GateIsHeld /\ OneMigrates)'
    BY DEF StartupInv, GateIsHeld, OneMigrates, GrewInto, dsVars
  <1>3. (LedgerOnlyGrows /\ ReadyIsMigrated)'
    BY DEF StartupInv, LedgerOnlyGrows, ReadyIsMigrated, GrewInto, dsVars
  <1>4. PoolsAreUsable' BY DEF StartupInv, PoolsAreUsable, dsVars
  <1> QED BY <1>1, <1>2, <1>3, <1>4 DEF StartupInv

LEMMA StartupIsInductive == Spec => []StartupInv
  <1>1. Init => StartupInv
    BY StartupStarts DEF Init
  <1>2. StartupInv /\ [Next]_vars => StartupInv'
    BY StartupStep, StartupUnchanged, StartupFrame
  <1> QED BY <1>1, <1>2, PTL DEF Spec

LEMMA StartupInvIsSafe ==
    ASSUME StartupInv
    PROVE  /\ ReadyMeansMigrated /\ dsTypeOK
           /\ \A p \in Processes : dsTable[p] # 0 => dsPools[dsTable[p]] # "closed"
  <1>1. dsObjects = DOMAIN dsLedger
    BY DEF StartupInv, StartupShape
  <1>2. ASSUME NEW p \in dsReady, NEW v \in DOMAIN dsCode[p].tree
        PROVE  v \in dsObjects /\ dsLedger[v] = dsCode[p].tree[v]
    <2>1. GrewInto(dsCode[p].tree, dsLedger) /\ p \in Processes
      BY DEF StartupInv, StartupShape, ReadyIsMigrated
    <2>2. dsCode[p].tree \in Seq(STRING)
      BY <2>1, StartupAssumption DEF StartupInv, StartupShape
    <2>3. v \in 1..Len(dsCode[p].tree)
      BY <2>2
    <2>4. Len(dsCode[p].tree) <= Len(dsLedger) /\ dsLedger[v] = dsCode[p].tree[v]
      BY <2>1, <2>3 DEF GrewInto
    <2> QED BY <2>2, <2>3, <2>4 DEF StartupInv, StartupShape
  <1>3. \A p \in Processes : dsTable[p] # 0 => dsPools[dsTable[p]] # "closed"
    BY DEF StartupInv, PoolsAreUsable
  <1>4. dsTypeOK
    <2>1. \A p \in Processes : dsTable[p] \in 0..Len(dsPools) /\ dsCode[p].tree \in Trees
      BY DEF StartupInv, StartupShape, PoolsAreUsable
    <2>2. \A t \in StartupThreads : dsThread[t].pool \in 0..Len(dsPools)
      BY DEF StartupInv, StartupShape, PoolsAreUsable
    <2> QED BY <2>1, <2>2 DEF StartupInv, StartupShape, GateIsHeld, PastGate, dsTypeOK
  <1> QED BY <1>1, <1>2, <1>3, <1>4 DEF ReadyMeansMigrated

\* A pool that a thread has looked up is its table's, unless a loop has reset the table
\* since; one whose connections are used has been opened.
BorrowersKnown ==
    /\ \A t \in StartupThreads :
          dsThread[t].at \in {"held", "using"} /\ t[1] \notin LoopProcesses =>
              dsThread[t].pool = dsTable[t[1]]
    /\ \A t \in StartupThreads : dsThread[t].at = "using" =>
          dsThread[t].pool # 0 /\ dsPools[dsThread[t].pool] \in {"open", "closed"}

LEMMA BorrowersKept ==
    ASSUME BorrowersKnown, UNCHANGED <<dsTable, dsPools>>,
           \A u \in StartupThreads :
              dsThread'[u].at \in {"held", "using"} => dsThread'[u] = dsThread[u]
    PROVE  BorrowersKnown'
  BY DEF BorrowersKnown

\* On the way to the database being ready no pool is touched.
LEMMA ReadinessIsApart ==
    ASSUME StartupInv, NEW t \in StartupThreads, EnsureReady(t)
    PROVE  /\ UNCHANGED <<dsTable, dsPools>>
           /\ \A u \in StartupThreads :
                 dsThread'[u].at \in {"held", "using"} => dsThread'[u] = dsThread[u]
  <1>1. UNCHANGED <<dsTable, dsPools>>
    BY DEF EnsureReady, EnterStartup, AlreadyReady, Refused, BeginMigration, ApplyMigration,
           CommitMigration, ReadLedger, postgres_migration_status
  <1>2. \/ \E place \in ThreadPlaces \ {"held", "using"} : Moves(t, place)
        \/ dsThread' = [dsThread EXCEPT ![t] = AtRest]
        \/ dsThread' = [dsThread EXCEPT ![t].at = "schema", ![t].ledger = dsLedger]
        \/ UNCHANGED dsThread
    <2> USE DEF ThreadPlaces
    <2>1. CASE EnterStartup(t) BY <2>1 DEF EnterStartup
    <2>2. CASE AlreadyReady(t) BY <2>2 DEF AlreadyReady
    <2>3. CASE Refused(t) BY <2>3 DEF Refused
    <2>4. CASE BeginMigration(t) BY <2>4 DEF BeginMigration
    <2>5. ASSUME NEW works \in BOOLEAN, ApplyMigration(t, works)
          PROVE  \/ \E place \in ThreadPlaces \ {"held", "using"} : Moves(t, place)
                 \/ UNCHANGED dsThread
      BY <2>5 DEF ApplyMigration
    <2>6. CASE CommitMigration(t) BY <2>6 DEF CommitMigration
    <2>7. CASE ReadLedger(t) BY <2>7 DEF ReadLedger, Moves
    <2>8. CASE postgres_migration_status(t) BY <2>8 DEF postgres_migration_status
    <2> QED BY <2>1, <2>2, <2>3, <2>4, <2>5, <2>6, <2>7, <2>8 DEF EnsureReady
  <1>3. dsThread \in ThreadStates BY DEF StartupInv, StartupShape, ThreadStates
  <1>4. ASSUME NEW place \in ThreadPlaces \ {"held", "using"}, Moves(t, place)
        PROVE  dsThread'[t].at = place /\ OthersStay(t)
    BY <1>4, ThreadMoves DEF StartupInv
  <1>5. ASSUME dsThread' = [dsThread EXCEPT ![t] = AtRest]
        PROVE  dsThread'[t].at = "idle" /\ OthersStay(t)
    BY <1>5, ThreadRests DEF StartupInv
  <1>6. ASSUME dsThread' = [dsThread EXCEPT ![t].at = "schema", ![t].ledger = dsLedger]
        PROVE  dsThread'[t].at = "schema" /\ OthersStay(t)
    BY <1>3, <1>6 DEF ThreadStates, OthersStay
  <1>7. (OthersStay(t) /\ dsThread'[t].at \notin {"held", "using"}) \/ UNCHANGED dsThread
    BY <1>2, <1>4, <1>5, <1>6
  <1> QED BY <1>1, <1>7 DEF OthersStay

LEMMA BorrowersLookUp ==
    ASSUME StartupInv, BorrowersKnown, NEW t \in StartupThreads, connection_pool(t)
    PROVE  BorrowersKnown'
  <1>p. /\ t[1] \in Processes /\ dsTable \in [Processes -> Nat] /\ dsPools \in Seq(PoolStates)
        /\ Len(dsPools) \in Nat /\ dsThread \in ThreadStates
    BY ThreadsArePairs DEF StartupInv, StartupShape, PoolStates, ThreadStates
  <1>1. CASE dsTable[t[1]] # 0
    <2>1. /\ dsThread' = [dsThread EXCEPT ![t].at = "held", ![t].pool = dsTable[t[1]]]
          /\ UNCHANGED <<dsTable, dsPools>>
      BY <1>1 DEF connection_pool
    <2>2. /\ dsThread'[t].at = "held" /\ dsThread'[t].pool = dsTable[t[1]]
          /\ \A u \in StartupThreads : u # t => dsThread'[u] = dsThread[u]
      BY <1>p, <2>1 DEF ThreadStates
    <2> QED BY <2>1, <2>2 DEF BorrowersKnown
  <1>2. CASE dsTable[t[1]] = 0
    <2>1. /\ dsPools' = Append(dsPools, "new")
          /\ dsTable' = [dsTable EXCEPT ![t[1]] = Len(dsPools')]
          /\ dsThread' = [dsThread EXCEPT ![t].at = "held", ![t].pool = Len(dsPools')]
      BY <1>2 DEF connection_pool
    <2>2. /\ dsThread'[t].at = "held" /\ dsThread'[t].pool = dsTable'[t[1]]
          /\ \A u \in StartupThreads : u # t => dsThread'[u] = dsThread[u]
          /\ \A q \in Processes : q # t[1] => dsTable'[q] = dsTable[q]
      BY <1>p, <2>1 DEF ThreadStates
    <2>3. \A k \in 1..Len(dsPools) : dsPools'[k] = dsPools[k]
      BY <1>p, <2>1
    <2>4. ASSUME NEW u \in StartupThreads, u # t, dsThread'[u].at \in {"held", "using"}
          PROVE  /\ u[1] \notin LoopProcesses => dsThread'[u].pool = dsTable'[u[1]]
                 /\ dsThread'[u].at = "using" => /\ dsThread'[u].pool # 0
                                                 /\ dsPools'[dsThread'[u].pool] \in {"open", "closed"}
      <3>1. /\ dsThread'[u] = dsThread[u] /\ u[1] \in Processes /\ dsThread[u].pool \in Nat
            /\ dsThread[u].pool <= Len(dsPools)
        BY <1>p, <2>2, <2>4, ThreadsArePairs DEF ThreadStates, StartupInv, PoolsAreUsable
      <3>2. dsThread[u].pool # 0
        BY <2>4, <3>1 DEF StartupInv, PoolsAreUsable, BorrowersKnown
      <3>3. u[1] \notin LoopProcesses => dsThread[u].pool = dsTable[u[1]]
        BY <2>4, <3>1 DEF BorrowersKnown
      <3>4. u[1] \notin LoopProcesses => dsThread'[u].pool = dsTable'[u[1]]
        BY <1>2, <2>2, <3>1, <3>2, <3>3
      <3>5. dsThread[u].pool \in 1..Len(dsPools)
        BY <1>p, <3>1, <3>2
      <3> QED BY <2>3, <3>1, <3>2, <3>4, <3>5 DEF BorrowersKnown
    <2> QED BY <2>2, <2>4 DEF BorrowersKnown
  <1> QED BY <1>1, <1>2

LEMMA BorrowersOpen ==
    ASSUME StartupInv, BorrowersKnown, NEW t \in StartupThreads, NEW answers \in BOOLEAN,
           OpenPool(t, answers)
    PROVE  BorrowersKnown'
  <1> DEFINE pool == dsThread[t].pool
             opened == Opened(dsPools[pool], answers)
  <1>p. /\ dsThread[t].at = "held" /\ pool \in Nat /\ pool # 0 /\ pool <= Len(dsPools)
        /\ dsPools \in Seq(PoolStates) /\ Len(dsPools) \in Nat /\ dsThread \in ThreadStates
        /\ dsTable' = dsTable /\ dsPools' = [dsPools EXCEPT ![pool] = opened]
    <2>1. dsThread[t].at = "held" /\ dsTable' = dsTable
          /\ dsPools' = [dsPools EXCEPT ![pool] = opened]
      BY DEF OpenPool
    <2>2. dsThread \in ThreadStates /\ dsPools \in Seq(PoolStates)
      BY DEF StartupInv, StartupShape, PoolStates, ThreadStates
    <2>3. pool \in Nat BY <2>2 DEF ThreadStates
    <2>4. pool # 0 /\ pool <= Len(dsPools)
      BY <2>1 DEF StartupInv, PoolsAreUsable
    <2> QED BY <2>1, <2>2, <2>3, <2>4
  <1>1. \/ opened = "open" /\ Moves(t, "using")
        \/ dsThread' = [dsThread EXCEPT ![t] = AtRest]
    BY DEF OpenPool
  <1>2. \/ opened = "open" /\ dsThread'[t].at = "using" /\ dsThread'[t].pool = pool
        \/ dsThread'[t].at = "idle"
    BY <1>1, ThreadMoves, ThreadRests DEF StartupInv, ThreadPlaces
  <1>3. \A u \in StartupThreads : u # t => dsThread'[u] = dsThread[u]
    BY <1>1, ThreadMoves, ThreadRests DEF StartupInv, ThreadPlaces, OthersStay
  <1>4. /\ dsPools'[pool] = opened
        /\ \A k \in 1..Len(dsPools) : k # pool => dsPools'[k] = dsPools[k]
    BY <1>p DEF PoolStates
  <1>5. dsPools[pool] \in {"open", "closed"} => opened = dsPools[pool]
    BY DEF Opened
  <1>6. \A u \in StartupThreads : u # t /\ dsThread'[u].at = "using" =>
          /\ dsThread'[u].pool # 0 /\ dsPools'[dsThread'[u].pool] \in {"open", "closed"}
    <2> SUFFICES ASSUME NEW u \in StartupThreads, u # t, dsThread'[u].at = "using"
                 PROVE  /\ dsThread'[u].pool # 0
                        /\ dsPools'[dsThread'[u].pool] \in {"open", "closed"}
      OBVIOUS
    <2>1. dsThread'[u] = dsThread[u] /\ dsThread[u].pool \in Nat /\ dsThread[u].pool <= Len(dsPools)
      BY <1>p, <1>3 DEF ThreadStates, StartupInv, PoolsAreUsable
    <2>2. dsThread[u].pool # 0 /\ dsPools[dsThread[u].pool] \in {"open", "closed"}
      BY <2>1 DEF BorrowersKnown
    <2>3. dsPools'[dsThread[u].pool] = dsPools[dsThread[u].pool]
      BY <1>p, <1>4, <1>5, <2>1, <2>2
    <2> QED BY <2>1, <2>2, <2>3
  <1>7. dsThread'[t].at = "using" =>
          dsThread'[t].pool # 0 /\ dsPools'[dsThread'[t].pool] \in {"open", "closed"}
    BY <1>p, <1>2, <1>4
  <1>8. \A u \in StartupThreads :
          dsThread'[u].at \in {"held", "using"} /\ u[1] \notin LoopProcesses =>
              dsThread'[u].pool = dsTable'[u[1]]
    BY <1>p, <1>2, <1>3 DEF BorrowersKnown
  <1> QED BY <1>6, <1>7, <1>8 DEF BorrowersKnown

LEMMA BorrowersReset ==
    ASSUME StartupInv, BorrowersKnown, NEW t \in StartupThreads,
           TakePools(t) \/ ClosePools(t) \/ ReturnConnection(t)
    PROVE  BorrowersKnown'
  <1>p. /\ t[1] \in Processes /\ dsTable \in [Processes -> Nat] /\ dsPools \in Seq(PoolStates)
        /\ Len(dsPools) \in Nat /\ dsThread \in ThreadStates
    BY ThreadsArePairs DEF StartupInv, StartupShape, PoolStates, ThreadStates
  <1>1. /\ dsThread'[t].at \in {"idle", "closing"}
        /\ \A u \in StartupThreads : u # t => dsThread'[u] = dsThread[u]
    <2>1. CASE TakePools(t) BY <1>p, <2>1 DEF TakePools, ThreadStates
    <2>2. CASE ~TakePools(t)
      <3>1. dsThread' = [dsThread EXCEPT ![t] = AtRest]
        BY <2>2 DEF ClosePools, ReturnConnection
      <3> QED BY <3>1, ThreadRests DEF StartupInv, OthersStay
    <2> QED BY <2>1, <2>2
  <1>2. \A q \in Processes : q \notin LoopProcesses => dsTable'[q] = dsTable[q]
    BY <1>p DEF TakePools, ClosePools, ReturnConnection
  <1>3. \A k \in 1..Len(dsPools) :
          dsPools[k] \in {"open", "closed"} => dsPools'[k] \in {"open", "closed"}
    <2>1. CASE ClosePools(t)
      <3>1. PICK state \in {dsPools[dsThread[t].pool], "closed"} :
              dsPools' = [dsPools EXCEPT ![dsThread[t].pool] = state]
        BY <2>1 DEF ClosePools, Closed
      <3> QED BY <1>p, <3>1 DEF PoolStates
    <2>2. CASE ~ClosePools(t)
      BY <2>2 DEF TakePools, ReturnConnection
    <2> QED BY <2>1, <2>2
  <1>4. ASSUME NEW u \in StartupThreads, dsThread'[u].at \in {"held", "using"}
        PROVE  /\ u[1] \notin LoopProcesses => dsThread'[u].pool = dsTable'[u[1]]
               /\ dsThread'[u].at = "using" => /\ dsThread'[u].pool # 0
                                               /\ dsPools'[dsThread'[u].pool] \in {"open", "closed"}
    <2>1. /\ dsThread'[u] = dsThread[u] /\ u[1] \in Processes /\ dsThread[u].pool \in Nat
          /\ dsThread[u].pool <= Len(dsPools)
      BY <1>p, <1>1, <1>4, ThreadsArePairs DEF ThreadStates, StartupInv, PoolsAreUsable
    <2>2. u[1] \notin LoopProcesses => dsThread'[u].pool = dsTable'[u[1]]
      BY <1>2, <1>4, <2>1 DEF BorrowersKnown
    <2>3. CASE dsThread'[u].at = "using"
      <3>1. dsThread[u].pool # 0 /\ dsPools[dsThread[u].pool] \in {"open", "closed"}
        BY <2>1, <2>3 DEF BorrowersKnown
      <3>2. dsThread[u].pool \in 1..Len(dsPools) BY <1>p, <2>1, <3>1
      <3> QED BY <1>3, <2>1, <2>2, <3>1, <3>2
    <2> QED BY <2>2, <2>3
  <1> QED BY <1>4 DEF BorrowersKnown

LEMMA BorrowersRestart ==
    ASSUME StartupInv, BorrowersKnown,
           \/ DatabaseSwitch
           \/ \E p \in Processes, tree \in Trees, mode \in {"check", "apply"} : Redeploy(p, tree, mode)
    PROVE  BorrowersKnown'
  <1>1. CASE DatabaseSwitch
    <2>1. UNCHANGED <<dsTable, dsPools>> BY <1>1 DEF DatabaseSwitch
    <2>2. dsThread' = [t \in StartupThreads |->
            IF dsThread[t].at \in {"migrating", "schema"}
            THEN [dsThread[t] EXCEPT !.at = "refused"] ELSE dsThread[t]]
      BY <1>1 DEF DatabaseSwitch
    <2>3. dsThread \in ThreadStates BY DEF StartupInv, StartupShape, ThreadStates
    <2>4. \A u \in StartupThreads :
            dsThread'[u].at \in {"held", "using"} => dsThread'[u] = dsThread[u]
      BY <2>2, <2>3 DEF ThreadStates
    <2> QED BY <2>1, <2>4, BorrowersKept
  <1>2. ASSUME NEW p \in Processes, NEW tree \in Trees, NEW mode \in {"check", "apply"},
               Redeploy(p, tree, mode)
        PROVE  BorrowersKnown'
    <2>1. dsPools' = dsPools /\ dsTable' = [dsTable EXCEPT ![p] = 0] BY <1>2 DEF Redeploy
    <2>2. dsThread' = [t \in StartupThreads |-> IF t[1] = p THEN AtRest ELSE dsThread[t]]
      BY <1>2 DEF Redeploy
    <2>3. \A u \in StartupThreads : dsThread'[u].at \in {"held", "using"} =>
            dsThread'[u] = dsThread[u] /\ u[1] # p /\ u[1] \in Processes
      BY <2>2, ThreadsArePairs DEF AtRest
    <2>4. \A q \in Processes : q # p => dsTable'[q] = dsTable[q]
      BY <2>1 DEF StartupInv, StartupShape
    <2> QED BY <2>1, <2>3, <2>4 DEF BorrowersKnown
  <1> QED BY <1>1, <1>2

LEMMA BorrowersAreInductive == Spec => []BorrowersKnown
  <1>1. Init => BorrowersKnown
    BY DEF Init, dsInit, AtRest, BorrowersKnown
  <1>2. ASSUME StartupInv, BorrowersKnown, [Next]_vars PROVE BorrowersKnown'
    <2>1. CASE UNCHANGED dsVars BY <1>2, <2>1 DEF BorrowersKnown, dsVars
    <2>2. ASSUME NEW t \in StartupThreads, EnsureReady(t) PROVE BorrowersKnown'
      BY <1>2, <2>2, ReadinessIsApart, BorrowersKept
    <2>3. ASSUME NEW t \in StartupThreads, UsePools(t) PROVE BorrowersKnown'
      BY <1>2, <2>3, BorrowersLookUp, BorrowersOpen, BorrowersReset DEF UsePools
    <2>4. dsNext \/ UNCHANGED dsVars BY <1>2, StartupFrame
    <2> QED BY <1>2, <2>1, <2>2, <2>3, <2>4, BorrowersRestart DEF dsNext
  <1> QED BY <1>1, <1>2, StartupIsInductive, PTL DEF Spec

(***************************************************************************)
(* A process that believes the database ready has every migration of its   *)
(* code in the schema, unedited, whoever migrates, dies and is deployed    *)
(* meanwhile; the table never keeps a pool that was reset; and a           *)
(* connection in use is of an opened pool, the table's own unless a        *)
(* worker's loop has reset the table meanwhile (ensure_database_ready,     *)
(* apply_postgres_migrations, PostgresPool and close_connection_pools).    *)
(***************************************************************************)
THEOREM StartupSafe == Spec => []StartupIsSafe
  <1>1. ASSUME StartupInv, BorrowersKnown PROVE PoolsAreSound
    <2>1. \A p \in Processes : dsTable[p] # 0 => dsPools[dsTable[p]] # "closed"
      BY <1>1, StartupInvIsSafe
    <2>2. ASSUME NEW t \in StartupThreads, dsThread[t].at = "using"
          PROVE  \/ dsPools[dsThread[t].pool] = "open" /\ dsTable[t[1]] = dsThread[t].pool
                 \/ /\ dsPools[dsThread[t].pool] \in {"open", "closed"}
                    /\ dsTable[t[1]] # dsThread[t].pool /\ t[1] \in LoopProcesses
      <3>1. /\ dsThread[t].pool # 0 /\ dsPools[dsThread[t].pool] \in {"open", "closed"}
            /\ t[1] \notin LoopProcesses => dsThread[t].pool = dsTable[t[1]]
        BY <1>1, <2>2 DEF BorrowersKnown
      <3>2. t[1] \in Processes BY ThreadsArePairs
      <3> QED BY <2>1, <3>1, <3>2
    <2> QED BY <2>1, <2>2 DEF PoolsAreSound
  <1>2. StartupInv /\ BorrowersKnown => StartupIsSafe
    BY <1>1, StartupInvIsSafe DEF StartupIsSafe
  <1> QED BY <1>2, StartupIsInductive, BorrowersAreInductive, PTL

----------------------------------------------------------------------------
(* OperatorInbox: who holds a message, and which are listed. *)

Messages == [id : MessageIds, body : Bodies, priority : InboxPriorities,
             status : {"queued", "claimed", "completed"}, by : Agents \cup {""}]
Calls == [op : {"claim", "complete"}, id : MessageIds] \cup {NoCall}

InboxShape ==
    /\ obMessages \in Seq(Messages)
    /\ obCall \in [Agents -> Calls]
    /\ obTold \subseteq {"claim", "complete"} \X MessageIds \X Agents

\* An id is one row's.
IdsDiffer ==
    \A i, j \in DOMAIN obMessages : obMessages[i].id = obMessages[j].id => i = j

\* Whoever was told that a message is theirs is in its row, which is never theirs less.
ToldIsWritten ==
    \A t \in obTold : \E i \in DOMAIN obMessages :
        /\ obMessages[i].id = t[2] /\ obMessages[i].by = t[3]
        /\ obMessages[i].status # "queued"
        /\ t[1] = "complete" => obMessages[i].status = "completed"

InboxInv == InboxShape /\ IdsDiffer /\ ToldIsWritten

LEMMA InboxStarts == ASSUME obInit PROVE InboxInv
  BY DEF obInit, InboxInv, InboxShape, IdsDiffer, ToldIsWritten, Calls

LEMMA PlaceOfId ==
    ASSUME InboxInv, NEW i \in DOMAIN obMessages
    PROVE  Known(obMessages[i].id) /\ Place(obMessages[i].id) = i
  BY DEF InboxInv, IdsDiffer, Known, Place

LEMMA KnownPlace ==
    ASSUME InboxInv, NEW id, Known(id)
    PROVE  Place(id) \in DOMAIN obMessages /\ obMessages[Place(id)].id = id
  BY DEF Known, Place

LEMMA AddMessageKeeps ==
    ASSUME InboxInv, NEW id \in MessageIds, NEW body \in Bodies, NEW priority \in InboxPriorities,
           AddMessage(id, body, priority)
    PROVE  InboxInv'
  <1> DEFINE new == [id |-> id, body |-> body, priority |-> priority, status |-> "queued", by |-> ""]
  <1>1. obMessages' = Append(obMessages, new) /\ UNCHANGED <<obCall, obTold>> /\ ~Known(id)
    BY DEF AddMessage
  <1>2. new \in Messages /\ obMessages \in Seq(Messages)
    BY DEF Messages, InboxInv, InboxShape
  <1>3. new.id = id OBVIOUS
  <1> HIDE DEF new
  <1>4. /\ obMessages' \in Seq(Messages) /\ DOMAIN obMessages' = DOMAIN obMessages \cup {Len(obMessages) + 1}
        /\ \A i \in DOMAIN obMessages : obMessages'[i] = obMessages[i]
        /\ obMessages'[Len(obMessages) + 1] = new /\ Len(obMessages) + 1 \notin DOMAIN obMessages
    BY <1>1, <1>2
  <1>5. \A i \in DOMAIN obMessages : obMessages[i].id # id
    BY <1>1 DEF Known
  <1>6. IdsDiffer'
    BY <1>3, <1>4, <1>5 DEF InboxInv, IdsDiffer
  <1>7. ToldIsWritten'
    BY <1>1, <1>4 DEF InboxInv, ToldIsWritten
  <1> QED BY <1>1, <1>4, <1>6, <1>7 DEF InboxInv, InboxShape

\* A row changes its status and its agent only.
LEMMA RowIsWritten ==
    ASSUME InboxInv, NEW i \in DOMAIN obMessages, NEW status \in {"claimed", "completed"},
           NEW a \in Agents,
           \/ obMessages' = [obMessages EXCEPT ![i].status = status, ![i].by = a]
           \/ obMessages' = [obMessages EXCEPT ![i].status = status] /\ obMessages[i].by = a
    PROVE  /\ obMessages' \in Seq(Messages) /\ DOMAIN obMessages' = DOMAIN obMessages
           /\ \A j \in DOMAIN obMessages : /\ obMessages'[j].id = obMessages[j].id
                                           /\ j # i => obMessages'[j] = obMessages[j]
           /\ obMessages'[i].status = status /\ obMessages'[i].by = a
  <1>0. obMessages \in Seq(Messages) BY DEF InboxInv, InboxShape
  <1>1. CASE obMessages' = [obMessages EXCEPT ![i].status = status, ![i].by = a]
    <2>1. /\ DOMAIN obMessages' = DOMAIN obMessages
          /\ \A j \in DOMAIN obMessages : j # i => obMessages'[j] = obMessages[j]
          /\ obMessages'[i] = [obMessages[i] EXCEPT !.status = status, !.by = a]
          /\ obMessages' = [obMessages EXCEPT ![i] = [obMessages[i] EXCEPT !.status = status, !.by = a]]
      BY <1>0, <1>1
    <2>m. obMessages[i] \in Messages BY <1>0
    <2>2. /\ obMessages'[i] \in Messages /\ obMessages'[i].status = status
          /\ obMessages'[i].by = a /\ obMessages'[i].id = obMessages[i].id
      BY <2>1, <2>m DEF Messages
    <2>3. obMessages' \in Seq(Messages) BY <1>0, <2>1, <2>2
    <2> QED BY <2>1, <2>2, <2>3
  <1>2. CASE obMessages' = [obMessages EXCEPT ![i].status = status] /\ obMessages[i].by = a
    <2>1. /\ DOMAIN obMessages' = DOMAIN obMessages
          /\ \A j \in DOMAIN obMessages : j # i => obMessages'[j] = obMessages[j]
          /\ obMessages'[i] = [obMessages[i] EXCEPT !.status = status]
          /\ obMessages' = [obMessages EXCEPT ![i] = [obMessages[i] EXCEPT !.status = status]]
      BY <1>0, <1>2
    <2>m. obMessages[i] \in Messages BY <1>0
    <2>2. /\ obMessages'[i] \in Messages /\ obMessages'[i].status = status
          /\ obMessages'[i].by = a /\ obMessages'[i].id = obMessages[i].id
      BY <1>2, <2>1, <2>m DEF Messages
    <2>3. obMessages' \in Seq(Messages) BY <1>0, <2>1, <2>2
    <2> QED BY <2>1, <2>2, <2>3
  <1> QED BY <1>1, <1>2

LEMMA ClaimMessageKeeps ==
    ASSUME InboxInv, NEW a \in Agents, NEW id \in MessageIds, ClaimMessage(a, id)
    PROVE  InboxInv'
  <1>1. CASE Known(id) /\ Message(id).status = "queued"
    <2>1. PICK i \in DOMAIN obMessages : i = Place(id) /\ obMessages[i].id = id
      BY <1>1, KnownPlace
    <2>2. /\ obMessages[i].status = "queued" /\ UNCHANGED obCall
          /\ obMessages' = [obMessages EXCEPT ![i].status = "claimed", ![i].by = a]
          /\ obTold' = obTold \cup {<<"claim", id, a>>}
      BY <1>1, <2>1 DEF ClaimMessage, Message
    <2>3. /\ obMessages' \in Seq(Messages) /\ DOMAIN obMessages' = DOMAIN obMessages
          /\ \A j \in DOMAIN obMessages : /\ obMessages'[j].id = obMessages[j].id
                                          /\ j # i => obMessages'[j] = obMessages[j]
          /\ obMessages'[i].status = "claimed" /\ obMessages'[i].by = a
      BY <2>2, RowIsWritten
    <2>4. InboxShape'
      <3>1. <<"claim", id, a>> \in {"claim", "complete"} \X MessageIds \X Agents
        OBVIOUS
      <3>2. obTold' \subseteq {"claim", "complete"} \X MessageIds \X Agents
        BY <2>2, <3>1 DEF InboxInv, InboxShape
      <3> QED BY <2>2, <2>3, <3>2 DEF InboxInv, InboxShape
    <2>5. IdsDiffer'
      BY <2>3 DEF InboxInv, IdsDiffer
    <2>6. \A t \in obTold : \E j \in DOMAIN obMessages' :
            /\ obMessages'[j].id = t[2] /\ obMessages'[j].by = t[3]
            /\ obMessages'[j].status # "queued"
            /\ t[1] = "complete" => obMessages'[j].status = "completed"
      <3> TAKE t \in obTold
      <3>1. PICK j \in DOMAIN obMessages :
              /\ obMessages[j].id = t[2] /\ obMessages[j].by = t[3]
              /\ obMessages[j].status # "queued"
              /\ t[1] = "complete" => obMessages[j].status = "completed"
        BY DEF InboxInv, ToldIsWritten
      <3>2. CASE j = i
        BY <2>2, <2>3, <3>1, <3>2
      <3>3. CASE j # i
        BY <2>3, <3>1, <3>3
      <3> QED BY <3>2, <3>3
    <2>7. ToldIsWritten'
      BY <2>1, <2>2, <2>3, <2>6 DEF ToldIsWritten
    <2> QED BY <2>4, <2>5, <2>7 DEF InboxInv
  <1>2. CASE ~ (Known(id) /\ Message(id).status = "queued")
    <2>1. obCall' = [obCall EXCEPT ![a] = [op |-> "claim", id |-> id]] /\ UNCHANGED <<obMessages, obTold>>
      BY <1>2 DEF ClaimMessage
    <2>2. InboxShape' BY <2>1 DEF InboxInv, InboxShape, Calls
    <2> QED BY <2>1, <2>2 DEF InboxInv, IdsDiffer, ToldIsWritten
  <1> QED BY <1>1, <1>2

LEMMA CompleteMessageKeeps ==
    ASSUME InboxInv, NEW a \in Agents, NEW id \in MessageIds, CompleteMessage(a, id)
    PROVE  InboxInv'
  <1>1. CASE Known(id) /\ Message(id).status = "claimed" /\ Message(id).by = a
    <2>1. PICK i \in DOMAIN obMessages : i = Place(id) /\ obMessages[i].id = id
      BY <1>1, KnownPlace
    <2>2. /\ obMessages[i].status = "claimed" /\ obMessages[i].by = a /\ UNCHANGED obCall
          /\ obMessages' = [obMessages EXCEPT ![i].status = "completed"]
          /\ obTold' = obTold \cup {<<"complete", id, a>>}
      BY <1>1, <2>1 DEF CompleteMessage, Message
    <2>3. /\ obMessages' \in Seq(Messages) /\ DOMAIN obMessages' = DOMAIN obMessages
          /\ \A j \in DOMAIN obMessages : /\ obMessages'[j].id = obMessages[j].id
                                          /\ j # i => obMessages'[j] = obMessages[j]
          /\ obMessages'[i].status = "completed" /\ obMessages'[i].by = a
      BY <2>2, RowIsWritten
    <2>4. InboxShape'
      <3>1. <<"complete", id, a>> \in {"claim", "complete"} \X MessageIds \X Agents
        OBVIOUS
      <3>2. obTold' \subseteq {"claim", "complete"} \X MessageIds \X Agents
        BY <2>2, <3>1 DEF InboxInv, InboxShape
      <3> QED BY <2>2, <2>3, <3>2 DEF InboxInv, InboxShape
    <2>5. IdsDiffer'
      BY <2>3 DEF InboxInv, IdsDiffer
    <2>6. \A t \in obTold : \E j \in DOMAIN obMessages' :
            /\ obMessages'[j].id = t[2] /\ obMessages'[j].by = t[3]
            /\ obMessages'[j].status # "queued"
            /\ t[1] = "complete" => obMessages'[j].status = "completed"
      <3> TAKE t \in obTold
      <3>1. PICK j \in DOMAIN obMessages :
              /\ obMessages[j].id = t[2] /\ obMessages[j].by = t[3]
              /\ obMessages[j].status # "queued"
              /\ t[1] = "complete" => obMessages[j].status = "completed"
        BY DEF InboxInv, ToldIsWritten
      <3>2. CASE j = i
        BY <2>2, <2>3, <3>1, <3>2
      <3>3. CASE j # i
        BY <2>3, <3>1, <3>3
      <3> QED BY <3>2, <3>3
    <2>7. ToldIsWritten'
      BY <2>1, <2>2, <2>3, <2>6 DEF ToldIsWritten
    <2> QED BY <2>4, <2>5, <2>7 DEF InboxInv
  <1>2. CASE ~ (Known(id) /\ Message(id).status = "claimed" /\ Message(id).by = a)
    <2>1. obCall' = [obCall EXCEPT ![a] = [op |-> "complete", id |-> id]] /\ UNCHANGED <<obMessages, obTold>>
      BY <1>2 DEF CompleteMessage
    <2>2. InboxShape' BY <2>1 DEF InboxInv, InboxShape, Calls
    <2> QED BY <2>1, <2>2 DEF InboxInv, IdsDiffer, ToldIsWritten
  <1> QED BY <1>1, <1>2

\* A repeated call is told what the row says of the agent.
LEMMA ExplainKeeps ==
    ASSUME InboxInv, NEW a \in Agents, Explain(a) PROVE InboxInv'
  <1> DEFINE call == obCall[a]
  <1>0. call \in [op : {"claim", "complete"}, id : MessageIds]
    BY DEF Explain, InboxInv, InboxShape, Calls
  <1>u. obCall' = [obCall EXCEPT ![a] = NoCall] /\ UNCHANGED obMessages
    BY DEF Explain
  <1>1. CASE obTold' = obTold
    <2>1. InboxShape' BY <1>1, <1>u DEF InboxInv, InboxShape, Calls
    <2> QED BY <1>1, <1>u, <2>1 DEF InboxInv, IdsDiffer, ToldIsWritten
  <1>2. CASE /\ obTold' = obTold \cup {<<call.op, call.id, a>>}
             /\ Known(call.id) /\ Message(call.id).by = a
             /\ Message(call.id).status = IF call.op = "claim" THEN "claimed" ELSE "completed"
    <2>1. PICK i \in DOMAIN obMessages : i = Place(call.id) /\ obMessages[i].id = call.id
      BY <1>2, KnownPlace
    <2>2. obMessages[i].by = a /\ obMessages[i].status = IF call.op = "claim" THEN "claimed" ELSE "completed"
      BY <1>2, <2>1 DEF Message
    <2>3. call.op \in {"claim", "complete"} /\ call.id \in MessageIds
      BY <1>0
    <2> HIDE DEF call
    <2>4. obTold' \subseteq {"claim", "complete"} \X MessageIds \X Agents
      BY <1>2, <2>3 DEF InboxInv, InboxShape
    <2>5. InboxShape' BY <1>u, <2>4 DEF InboxInv, InboxShape, Calls
    <2>6. ToldIsWritten'
      BY <1>2, <1>u, <2>1, <2>2, <2>3 DEF InboxInv, ToldIsWritten
    <2> QED BY <1>u, <2>5, <2>6 DEF InboxInv, IdsDiffer
  <1> QED BY <1>1, <1>2 DEF Explain

LEMMA InboxStep == ASSUME InboxInv, [obNext]_obVars PROVE InboxInv'
  <1>1. CASE UNCHANGED obVars
    BY <1>1 DEF obVars, InboxInv, InboxShape, IdsDiffer, ToldIsWritten
  <1>2. CASE obNext
    BY <1>2, AddMessageKeeps, ClaimMessageKeeps, CompleteMessageKeeps, ExplainKeeps DEF obNext
  <1> QED BY <1>1, <1>2

LEMMA InboxIsInductive == Spec => []InboxInv
  <1>1. Init => InboxInv
    BY InboxStarts DEF Init
  <1>2. InboxInv /\ [Next]_vars => InboxInv'
    <2>1. [Next]_vars => [obNext]_obVars BY DEF Next, vars
    <2> QED BY <2>1, InboxStep
  <1> QED BY <1>1, <1>2, PTL DEF Spec

LEMMA OneAgentHoldsIt == ASSUME InboxInv PROVE OneAgentHolds
  <1>1. ASSUME NEW t \in obTold
        PROVE  /\ Message(t[2]).by = t[3]
               /\ t[1] = "complete" => Message(t[2]).status = "completed"
    <2>1. PICK i \in DOMAIN obMessages :
            /\ obMessages[i].id = t[2] /\ obMessages[i].by = t[3]
            /\ t[1] = "complete" => obMessages[i].status = "completed"
      BY DEF InboxInv, ToldIsWritten
    <2>2. Place(t[2]) = i BY <2>1, PlaceOfId
    <2> QED BY <2>1, <2>2 DEF Message
  <1>2. \A t, u \in obTold : t[2] = u[2] => t[3] = u[3]
    BY <1>1
  <1> QED BY <1>1, <1>2 DEF OneAgentHolds

\* R is a strict total order on F.
Orders(R, F) ==
    /\ \A i \in F : <<i, i>> \notin R
    /\ \A i, j, k \in F : <<i, j>> \in R /\ <<j, k>> \in R => <<i, k>> \in R
    /\ \A i, j \in F : i # j => <<i, j>> \in R \/ <<j, i>> \in R

\* In a finite set with a strict total order, those with fewer than limit before them are
\* the first limit: the number before an element is its place, from 0 on, and each place
\* is one element's.
Places(rank, R, F) ==
    /\ rank = [i \in F |-> Cardinality({j \in F : <<j, i>> \in R})]
    /\ rank \in [F -> 0..(Cardinality(F) - 1)]
    /\ \A i, j \in F : <<i, j>> \in R => rank[i] < rank[j]
    /\ \A i, j \in F : rank[i] = rank[j] => i = j
    /\ \A k \in 0..(Cardinality(F) - 1) : \E i \in F : rank[i] = k

LEMMA PlacesInAnOrder ==
    ASSUME NEW F, IsFiniteSet(F), NEW R, Orders(R, F)
    PROVE  \E rank : Places(rank, R, F)
  <1> DEFINE n == Cardinality(F)
  <1>0. n \in Nat BY FS_CardinalityType
  <1>r. PICK rank : rank = [i \in F |-> Cardinality({j \in F : <<j, i>> \in R})]
    OBVIOUS
  <1>1. PICK below : below = [i \in F |-> {j \in F : <<j, i>> \in R}]
    OBVIOUS
  <1>2. /\ rank = [i \in F |-> Cardinality(below[i])]
        /\ \A i \in F : below[i] \in SUBSET F
        /\ \A i, j \in F : j \in below[i] <=> <<j, i>> \in R
    BY <1>1, <1>r
  <1>3. \A i \in F : IsFiniteSet(below[i]) /\ Cardinality(below[i]) \in Nat
    BY <1>2, FS_Subset, FS_CardinalityType
  <1>4. ASSUME NEW i \in F, NEW j \in F, <<i, j>> \in R
        PROVE  rank[i] < rank[j]
    <2>1. below[i] \in SUBSET below[j] /\ i \in below[j] /\ i \notin below[i]
      BY <1>2, <1>4 DEF Orders
    <2>2. /\ Cardinality(below[i]) <= Cardinality(below[j])
          /\ Cardinality(below[j]) # Cardinality(below[i])
      BY <1>3, <2>1, FS_Subset
    <2>3. Cardinality(below[i]) \in Nat /\ Cardinality(below[j]) \in Nat
      BY <1>3
    <2>4. rank[i] = Cardinality(below[i]) /\ rank[j] = Cardinality(below[j])
      BY <1>2
    <2> QED BY <2>2, <2>3, <2>4
  <1>5. ASSUME NEW i \in F PROVE rank[i] \in 0..(n - 1)
    <2>1. below[i] \in SUBSET F /\ i \in F /\ i \notin below[i]
      BY <1>2 DEF Orders
    <2>2. Cardinality(below[i]) <= n /\ n # Cardinality(below[i])
      BY <2>1, FS_Subset
    <2>3. rank[i] = Cardinality(below[i]) /\ Cardinality(below[i]) \in Nat
      BY <1>2, <1>3
    <2> HIDE DEF n
    <2> QED BY <1>0, <2>2, <2>3
  <1>6. rank \in [F -> 0..(n - 1)]
    BY <1>2, <1>5
  <1>7. ASSUME NEW i \in F, NEW j \in F, rank[i] = rank[j] PROVE i = j
    <2>1. rank[i] \in Nat /\ rank[j] \in Nat
      BY <1>5, <1>0
    <2>2. ~ (rank[i] < rank[j]) /\ ~ (rank[j] < rank[i])
      BY <1>7, <2>1
    <2> QED BY <1>4, <2>2 DEF Orders
  <1>8. \A k \in 0..(n - 1) : \E i \in F : rank[i] = k
    <2> HIDE DEF n
    <2>1. rank \in Injection(F, 0..(n - 1))
      BY <1>6, <1>7 DEF Injection, IsInjective
    <2>2. IsFiniteSet(0..(n - 1)) /\ Cardinality(0..(n - 1)) = n
      <3>1. n - 1 \in Int /\ 0 \in Int BY <1>0
      <3>2. /\ IsFiniteSet(0..(n - 1))
            /\ Cardinality(0..(n - 1)) = IF 0 > n - 1 THEN 0 ELSE n - 1 - 0 + 1
        BY <3>1, FS_Interval, Zenon
      <3> QED BY <1>0, <3>2
    <2>3. Cardinality(F) = n BY DEF n
    <2>4. rank \in Surjection(F, 0..(n - 1))
      BY <2>1, <2>2, <2>3, FS_Injection
    <2> QED BY <2>4 DEF Surjection
  <1>9. Places(rank, R, F)
    BY <1>4, <1>6, <1>7, <1>8, <1>r DEF Places
  <1> QED BY <1>9

LEMMA FirstOfAnOrder ==
    ASSUME NEW F, IsFiniteSet(F), NEW R, NEW limit \in Nat, Orders(R, F)
    PROVE  LET shown == {i \in F : Cardinality({j \in F : <<j, i>> \in R}) < limit}
           IN  /\ Cardinality(shown) = IF Cardinality(F) < limit THEN Cardinality(F) ELSE limit
               /\ \A i \in shown, j \in F \ shown : <<j, i>> \notin R
  <1>1. PICK rank : Places(rank, R, F)
    BY PlacesInAnOrder
  <1>2. PICK n \in Nat : n = Cardinality(F)
    BY FS_CardinalityType
  <1>3. PICK shown : shown = {i \in F : rank[i] < limit}
    OBVIOUS
  <1>4. shown = {i \in F : Cardinality({j \in F : <<j, i>> \in R}) < limit}
    BY <1>1, <1>3 DEF Places
  <1>5. /\ rank \in [F -> 0..(n - 1)]
        /\ \A i, j \in F : <<i, j>> \in R => rank[i] < rank[j]
        /\ \A i, j \in F : rank[i] = rank[j] => i = j
        /\ \A k \in 0..(n - 1) : \E i \in F : rank[i] = k
    BY <1>1, <1>2 DEF Places
  <1>6. PICK least \in Nat : least = IF n < limit THEN n ELSE limit
    BY <1>5
  <1>7. Cardinality(shown) = least
    <2>1. PICK place : place = [i \in shown |-> rank[i]]
      OBVIOUS
    <2>2. shown \in SUBSET F /\ IsFiniteSet(shown)
      BY <1>3, FS_Subset
    <2>3. place \in [shown -> 0..(least - 1)]
      BY <1>3, <1>5, <1>6, <2>1
    <2>4. \A k \in 0..(least - 1) : \E i \in shown : place[i] = k
      <3> TAKE k \in 0..(least - 1)
      <3>1. k \in 0..(n - 1) /\ k < limit BY <1>5, <1>6
      <3>2. PICK i \in F : rank[i] = k BY <1>5, <3>1
      <3> QED BY <1>3, <2>1, <3>1, <3>2
    <2>5. \A i, j \in shown : place[i] = place[j] => i = j
      BY <1>5, <2>1, <2>2
    <2>6. place \in Bijection(shown, 0..(least - 1))
      BY <2>3, <2>4, <2>5 DEF Bijection, Injection, IsInjective, Surjection
    <2>7. Cardinality(0..(least - 1)) = Cardinality(shown)
      BY <2>2, <2>6, FS_Bijection DEF ExistsBijection
    <2>8. least - 1 \in Int /\ 0 \in Int OBVIOUS
    <2>9. Cardinality(0..(least - 1)) = IF 0 > least - 1 THEN 0 ELSE least - 1 - 0 + 1
      BY <2>8, FS_Interval, Zenon
    <2> QED BY <2>7, <2>9
  <1>8. ASSUME NEW i \in shown, NEW j \in F \ shown PROVE <<j, i>> \notin R
    <2>1. i \in F /\ rank[i] < limit /\ ~ (rank[j] < limit) /\ rank[i] \in Int /\ rank[j] \in Int
      BY <1>3, <1>5
    <2> QED BY <1>5, <2>1
  <1>9. /\ Cardinality(shown) = IF Cardinality(F) < limit THEN Cardinality(F) ELSE limit
        /\ \A i \in shown, j \in F \ shown : <<j, i>> \notin R
    BY <1>2, <1>6, <1>7, <1>8
  <1> QED BY <1>4, <1>9, Zenon

LEMMA ListedAreUrgent == ASSUME InboxInv PROVE ListIsUrgentFirst
  <1> DEFINE D == DOMAIN obMessages
             F == {i \in D : obMessages[i].status = "queued"}
             R == {p \in D \X D : Before(p[1], p[2])}
  <1>1. obMessages \in Seq(Messages)
    BY DEF InboxInv, InboxShape
  <1>2. \A i \in D : i \in Nat /\ obMessages[i].priority \in Nat
    <2> TAKE i \in D
    <2>1. i \in Nat /\ obMessages[i] \in Messages BY <1>1
    <2>2. obMessages[i].priority \in InboxPriorities BY <2>1 DEF Messages
    <2> QED BY <2>1, <2>2, InboxAssumption
  <1>3. IsFiniteSet(F)
    <2>1. D = 1..Len(obMessages) /\ Len(obMessages) \in Nat BY <1>1
    <2>2. F \in SUBSET D OBVIOUS
    <2>3. IsFiniteSet(1..Len(obMessages)) BY <2>1, FS_Interval
    <2> HIDE DEF D, F
    <2> QED BY <2>1, <2>2, <2>3, FS_Subset
  <1>4. \A i, j \in F : <<i, j>> \in R <=> Before(i, j)
    OBVIOUS
  <1>5. Orders(R, F)
    BY <1>2, <1>4 DEF Before, Orders
  <1>6. ASSUME NEW limit \in ListLimits
        PROVE  LET shown == ListMessages("queued", limit)
               IN  /\ Cardinality(shown) = IF InboxCounts["queued"] < limit
                                           THEN InboxCounts["queued"] ELSE limit
                   /\ \A i \in shown : \A j \in D :
                         obMessages[j].status = "queued" /\ j \notin shown =>
                             obMessages[i].priority <= obMessages[j].priority
    <2> DEFINE first == {i \in F : Cardinality({j \in F : <<j, i>> \in R}) < limit}
    <2>1. limit \in Nat BY InboxAssumption
    <2>2. \A i \in F : {j \in F : <<j, i>> \in R} = {j \in F : Before(j, i)}
      BY <1>4
    <2>3. ListMessages("queued", limit) = first
      BY <2>2 DEF ListMessages
    <2>4. InboxCounts["queued"] = Cardinality(F)
      BY DEF InboxCounts
    <2> HIDE DEF F, R
    <2>5. /\ Cardinality(first) = IF Cardinality(F) < limit THEN Cardinality(F) ELSE limit
          /\ \A i \in first, j \in F \ first : <<j, i>> \notin R
      BY <1>3, <1>5, <2>1, FirstOfAnOrder
    <2>6. \A i \in first, j \in F \ first : obMessages[i].priority <= obMessages[j].priority
      <3> TAKE i \in first, j \in F \ first
      <3>1. i \in F /\ j \in F /\ ~Before(j, i) BY <1>4, <2>5
      <3>2. i \in D /\ j \in D BY <3>1 DEF F
      <3> QED BY <1>2, <3>1, <3>2 DEF Before
    <2>7. \A j \in D : obMessages[j].status = "queued" => j \in F
      BY DEF F
    <2> HIDE DEF first
    <2> QED BY <2>3, <2>4, <2>5, <2>6, <2>7
  <1> QED BY <1>6 DEF ListIsUrgentFirst

----------------------------------------------------------------------------
(* DashboardRefresh: one refresh at a time, and what the dashboard shows after it. *)

Slips == [SlipKeys -> {"none", "listed", "unlisted"}]
Payloads == [at : Int, error : {"", "live_refresh_failed"}, stale : BOOLEAN, slips : Slips]
RefreshPlaces == {"idle", "asked", "allowed", "locked", "announced", "job", "collected",
                  "persisted", "failed", "ended", "release"}
Results == {"", "ok", "live_refresh_failed", "postgres_snapshot_persistence_failed"}
RefreshStates ==
    [RefreshThreads -> [at : RefreshPlaces, reason : {"", "manual", "auto", "startup"},
                        now : Int, payload : Payloads, result : Results]]

DashboardShape ==
    /\ drClock \in 0..MaxDashboardClock
    /\ drFile \in Payloads /\ drStored \in Payloads
    /\ drLock \in RefreshThreads \cup {"free"}
    /\ drStatus \in {"idle", "running", "complete", "error"}
    /\ drThread \in RefreshStates
    /\ drLoop \in BOOLEAN /\ drFault \in BOOLEAN
    /\ drAudit \in Seq([ok : BOOLEAN, at : Int])
    /\ drLast \in (Results \ {""}) \cup {"none"}
    /\ \A t \in RefreshThreads : drThread[t].at = "ended" => drThread[t].result # ""

\* The lock says who is inside run_refresh, and, unless a thread or a file failed, the
\* status is that of the lock.
LockTells ==
    /\ \A t \in RefreshThreads : Inside(t) => drLock = t
    /\ ~drFault => /\ drLock # "free" => Inside(drLock)
                   /\ drStatus = "running" => drLock # "free" /\ drThread[drLock].at # "release"
                   /\ drLoop

\* The file is marked from the failure that marks it until a collection replaces it.
FileSaysFailed ==
    /\ \A t \in RefreshThreads :
          drThread[t].at = "ended" /\ drThread[t].result = "live_refresh_failed" =>
              drFile.error # ""
    /\ /\ drLast = "live_refresh_failed"
       /\ \A t \in RefreshThreads : drThread[t].at \notin {"collected", "persisted", "ended"}
       => drFile.error # ""

DashboardInv == DashboardShape /\ LockTells /\ FileSaysFailed

RefreshOthersStay(t) == \A u \in RefreshThreads \ {t} : drThread'[u] = drThread[u]

\* What a step of the thread inside must leave true about itself.
InsideMove(t) ==
    /\ RefreshOthersStay(t) /\ drLock' = drLock
    /\ drThread'[t].at \notin {"idle", "asked", "allowed"}
    /\ drFault' \/ (/\ ~drFault /\ drLoop' = drLoop
                    /\ drStatus' = "running" => drThread'[t].at # "release")
    /\ drThread'[t].at = "ended" /\ drThread'[t].result = "live_refresh_failed" =>
           drFile'.error # ""
    /\ /\ drLast' = "live_refresh_failed"
       /\ drThread'[t].at \notin {"collected", "persisted", "ended"}
       => drFile'.error # ""

LEMMA FreeIsNoThread == "free" \notin RefreshThreads
  BY DashboardAssumption DEF RefreshThreads

LEMMA DashboardClockIsInt ==
    ASSUME DashboardShape PROVE drClock \in Int /\ drFault \in BOOLEAN
  <1>1. MaxDashboardClock \in Nat BY DashboardAssumption
  <1>2. drClock \in 0..MaxDashboardClock /\ drFault \in BOOLEAN BY DEF DashboardShape
  <1> HIDE DEF DashboardShape
  <1> QED BY <1>1, <1>2

LEMMA NoFileIsAPayload == NoFile \in Payloads
  <1>1. Nothing \in Slips BY DEF Nothing, Slips
  <1> QED BY <1>1 DEF NoFile, Payloads

LEMMA DashboardStarts == ASSUME drInit PROVE DashboardInv
  <1>1. IdleThread \in [at : RefreshPlaces, reason : {"", "manual", "auto", "startup"},
                        now : Int, payload : Payloads, result : Results]
    BY NoFileIsAPayload DEF IdleThread, RefreshPlaces, Results
  <1>2. drThread \in RefreshStates
    BY <1>1 DEF drInit, RefreshStates, RefreshPlaces
  <1>3. \A t \in RefreshThreads : drThread[t].at \in {"idle", "asked"}
    BY DEF drInit, IdleThread
  <1>4. DashboardShape
    <2>1. drClock \in 0..MaxDashboardClock
      BY DashboardAssumption DEF drInit
    <2>2. drAudit \in Seq([ok : BOOLEAN, at : Int])
      BY DEF drInit
    <2>3. /\ drFile \in Payloads /\ drStored \in Payloads /\ drLock \in RefreshThreads \cup {"free"}
          /\ drStatus = "idle" /\ drLoop = TRUE /\ drFault = FALSE /\ drLast = "none"
      BY NoFileIsAPayload DEF drInit
    <2> QED BY <1>2, <1>3, <2>1, <2>2, <2>3 DEF DashboardShape
  <1>5. LockTells
    BY <1>3 DEF drInit, LockTells, Inside
  <1>6. FileSaysFailed
    BY <1>3 DEF drInit, FileSaysFailed
  <1> QED BY <1>4, <1>5, <1>6 DEF DashboardInv

LEMMA RefreshGoes ==
    ASSUME DashboardShape, NEW t \in RefreshThreads, NEW place \in RefreshPlaces, Goes(t, place)
    PROVE  /\ drThread' \in RefreshStates /\ drThread'[t].at = place
           /\ drThread'[t].result = drThread[t].result
           /\ drThread'[t].payload = drThread[t].payload
           /\ RefreshOthersStay(t)
  <1> HIDE DEF Payloads, RefreshPlaces, Results
  <1> QED BY DEF DashboardShape, RefreshStates, Goes, RefreshOthersStay

LEMMA RefreshLeaves ==
    ASSUME DashboardShape, NEW t \in RefreshThreads, Leaves(t)
    PROVE  /\ drThread' \in RefreshStates /\ drThread'[t].at = "idle"
           /\ RefreshOthersStay(t)
  <1>1. IdleThread \in [at : RefreshPlaces, reason : {"", "manual", "auto", "startup"},
                        now : Int, payload : Payloads, result : Results]
    BY NoFileIsAPayload DEF IdleThread, RefreshPlaces, Results
  <1>2. IdleThread.at = "idle" BY DEF IdleThread
  <1> QED BY <1>1, <1>2 DEF DashboardShape, RefreshStates, Leaves, RefreshOthersStay

\* A step before the lock is taken changes nothing that the invariant is about.
LEMMA OutsideStep ==
    ASSUME DashboardInv, NEW t \in RefreshThreads, ~Inside(t),
           drThread' \in RefreshStates, RefreshOthersStay(t),
           drThread'[t].at \in {"idle", "asked", "allowed"},
           UNCHANGED <<drClock, drFile, drStored, drLock, drStatus, drLoop, drAudit, drLast, drFault>>
    PROVE  DashboardInv'
  <1>1. DashboardShape'
    BY DEF DashboardInv, DashboardShape, RefreshOthersStay
  <1>2. \A u \in RefreshThreads : Inside(u)' <=> Inside(u)
    BY DEF Inside, RefreshOthersStay
  <1>3. \A u \in RefreshThreads : Inside(u) => drThread'[u] = drThread[u]
    BY DEF RefreshOthersStay
  <1>4. LockTells'
    <2>1. \A u \in RefreshThreads : Inside(u)' => drLock' = u
      BY <1>2 DEF DashboardInv, LockTells
    <2>2. ~drFault => /\ drLock # "free" => drLock \in RefreshThreads /\ Inside(drLock)'
                      /\ drStatus = "running" =>
                            drLock # "free" /\ drThread'[drLock].at # "release"
                      /\ drLoop
      BY <1>2, <1>3 DEF DashboardInv, DashboardShape, LockTells
    <2> QED BY <2>1, <2>2 DEF LockTells, Inside
  <1>5. FileSaysFailed'
    <2>1. \A u \in RefreshThreads : drThread'[u].at \in {"collected", "persisted", "ended"} =>
            Inside(u)' /\ drThread'[u] = drThread[u]
      BY <1>2, <1>3 DEF Inside
    <2>2. \A u \in RefreshThreads : drThread[u].at \in {"collected", "persisted", "ended"} =>
            Inside(u) /\ drThread'[u] = drThread[u]
      BY <1>3 DEF Inside
    <2> QED BY <2>1, <2>2 DEF DashboardInv, FileSaysFailed
  <1> QED BY <1>1, <1>4, <1>5 DEF DashboardInv

LEMMA OthersAreOutside ==
    ASSUME DashboardInv, NEW t \in RefreshThreads, Inside(t)
    PROVE  drLock = t /\ \A u \in RefreshThreads \ {t} : ~Inside(u)
  BY DEF DashboardInv, LockTells

LEMMA InsideStep ==
    ASSUME DashboardInv, NEW t \in RefreshThreads, Inside(t), DashboardShape', InsideMove(t)
    PROVE  DashboardInv'
  <1>1. drLock = t /\ \A u \in RefreshThreads \ {t} : ~Inside(u) /\ drThread'[u] = drThread[u]
    BY OthersAreOutside DEF RefreshOthersStay, InsideMove
  <1>2. \A u \in RefreshThreads \ {t} : drThread'[u].at \in {"idle", "asked", "allowed"}
    BY <1>1 DEF Inside
  <1>3. LockTells'
    <2>1. \A u \in RefreshThreads : Inside(u)' => drLock' = u
      BY <1>1, <1>2 DEF Inside, InsideMove
    <2>2. Inside(t)' /\ drLock' = t
      BY <1>1 DEF Inside, InsideMove
    <2>3. ~drFault' => drLoop' /\ (drStatus' = "running" => drThread'[t].at # "release")
      <3>1. drLoop \in BOOLEAN /\ drLoop' \in BOOLEAN /\ (~drFault => drLoop)
        BY DEF DashboardInv, DashboardShape, LockTells
      <3>2. ~drFault' => /\ ~drFault /\ drLoop' = drLoop
                         /\ drStatus' = "running" => drThread'[t].at # "release"
        BY DEF InsideMove
      <3> QED BY <3>1, <3>2
    <2> QED BY <2>1, <2>2, <2>3, FreeIsNoThread DEF LockTells
  <1>4. FileSaysFailed'
    BY <1>2 DEF FileSaysFailed, InsideMove
  <1> QED BY <1>3, <1>4 DEF DashboardInv

LEMMA DashboardTickKeeps == ASSUME DashboardInv, DashboardTick PROVE DashboardInv'
  <1>u. UNCHANGED <<drFile, drStored, drLock, drLastManual, drStatus, drThread, drLoop,
                    drAudit, drLast, drFault, drAsked>>
    BY DEF DashboardTick
  <1>1. drClock' \in 0..MaxDashboardClock
    <2>1. MaxDashboardClock \in Nat BY DashboardAssumption
    <2>2. drClock \in 0..MaxDashboardClock BY DEF DashboardInv, DashboardShape
    <2> HIDE DEF DashboardInv
    <2> QED BY <2>1, <2>2 DEF DashboardTick
  <1>2. DashboardShape' BY <1>u, <1>1 DEF DashboardInv, DashboardShape
  <1> QED BY <1>u, <1>2 DEF DashboardInv, LockTells, FileSaysFailed, Inside

LEMMA AskRefreshKeeps ==
    ASSUME DashboardInv, NEW t \in RefreshThreads, AskRefresh(t) PROVE DashboardInv'
  <1>1. PICK reason \in {"auto", "manual"} :
          drThread' = [drThread EXCEPT ![t].at = "asked", ![t].reason = reason]
    BY DEF AskRefresh
  <1>2. drThread' \in RefreshStates /\ drThread'[t].at = "asked" /\ RefreshOthersStay(t)
    <2> HIDE DEF Payloads, Results
    <2> QED BY <1>1 DEF DashboardInv, DashboardShape, RefreshStates, RefreshOthersStay, RefreshPlaces
  <1>3. ~Inside(t) BY DEF AskRefresh, Inside
  <1>u. UNCHANGED <<drClock, drFile, drStored, drLock, drStatus, drLoop, drAudit, drLast, drFault>>
    BY DEF AskRefresh
  <1> QED BY <1>2, <1>3, <1>u, OutsideStep

LEMMA CheckCooldownKeeps ==
    ASSUME DashboardInv, NEW t \in RefreshThreads, CheckCooldown(t) PROVE DashboardInv'
  <1>1. /\ drThread' \in RefreshStates /\ drThread'[t].at \in {"idle", "allowed"}
        /\ RefreshOthersStay(t)
    <2>1. CASE Leaves(t)
      BY <2>1, RefreshLeaves DEF DashboardInv
    <2>2. CASE drThread' = [drThread EXCEPT ![t].at = "allowed", ![t].now = drClock]
      <3>1. drClock \in Int BY DashboardClockIsInt DEF DashboardInv
      <3> QED BY <2>2, <3>1
          DEF DashboardInv, DashboardShape, RefreshStates, RefreshOthersStay, RefreshPlaces
    <2> QED BY <2>1, <2>2 DEF CheckCooldown
  <1>3. ~Inside(t) BY DEF CheckCooldown, Inside
  <1>u. UNCHANGED <<drClock, drFile, drStored, drLock, drStatus, drLoop, drAudit, drLast, drFault>>
    BY DEF CheckCooldown
  <1> QED BY <1>1, <1>3, <1>u, OutsideStep

\* With the lock free nobody is inside.
LEMMA AcquireRefreshKeeps ==
    ASSUME DashboardInv, NEW t \in RefreshThreads, AcquireRefresh(t) PROVE DashboardInv'
  <1>u. UNCHANGED <<drClock, drFile, drStored, drStatus, drLoop, drAudit, drLast, drFault>>
    BY DEF AcquireRefresh
  <1>o. ~Inside(t) BY DEF AcquireRefresh, Inside
  <1>1. CASE drLock' = drLock /\ Leaves(t)
    BY <1>1, <1>u, <1>o, RefreshLeaves, OutsideStep DEF DashboardInv
  <1>2. CASE drLock = "free" /\ drLock' = t /\ Goes(t, "locked")
    <2>1. drThread' \in RefreshStates /\ drThread'[t].at = "locked" /\ RefreshOthersStay(t)
      BY <1>2, RefreshGoes DEF DashboardInv, RefreshPlaces
    <2>2. \A u \in RefreshThreads \ {t} : ~Inside(u) /\ drThread'[u] = drThread[u]
      BY <1>2, <2>1, FreeIsNoThread DEF DashboardInv, LockTells, RefreshOthersStay
    <2>3. \A u \in RefreshThreads \ {t} : drThread'[u].at \in {"idle", "asked", "allowed"}
      BY <2>2 DEF Inside
    <2>4. DashboardShape'
      BY <1>2, <1>u, <2>1, <2>3 DEF DashboardInv, DashboardShape
    <2>5. LockTells'
      BY <1>2, <1>u, <2>1, <2>3, FreeIsNoThread DEF DashboardInv, LockTells, Inside
    <2>6. \A u \in RefreshThreads : drThread[u].at \notin {"collected", "persisted", "ended"}
      BY <1>o, <2>2 DEF Inside
    <2>7. FileSaysFailed'
      BY <1>u, <2>1, <2>3, <2>6 DEF DashboardInv, FileSaysFailed
    <2> QED BY <2>4, <2>5, <2>7 DEF DashboardInv
  <1> QED BY <1>1, <1>2 DEF AcquireRefresh

LEMMA AnnounceKeeps ==
    ASSUME DashboardInv, NEW t \in RefreshThreads, Announce(t) PROVE DashboardInv'
  <1>1. drThread' \in RefreshStates /\ drThread'[t].at = "announced" /\ RefreshOthersStay(t)
    BY RefreshGoes DEF Announce, DashboardInv, RefreshPlaces
  <1>u. /\ UNCHANGED <<drClock, drFile, drStored, drLock, drLoop, drAudit, drLast, drFault>>
        /\ drStatus' = "running" /\ drThread[t].at = "locked"
    BY DEF Announce
  <1>2. DashboardShape'
    BY <1>1, <1>u DEF DashboardInv, DashboardShape, RefreshOthersStay
  <1>3. drLast = "live_refresh_failed" => drFile.error # ""
    <2>1. Inside(t) BY <1>u DEF Inside
    <2>2. \A u \in RefreshThreads : drThread[u].at \notin {"collected", "persisted", "ended"}
      BY <1>u, <2>1, OthersAreOutside DEF Inside
    <2> QED BY <2>2 DEF DashboardInv, FileSaysFailed
  <1>m. InsideMove(t)
    BY <1>1, <1>2, <1>3, <1>u, DashboardClockIsInt DEF InsideMove, DashboardInv
  <1>n. Inside(t)
    BY <1>u DEF Inside
  <1> QED BY <1>1, <1>2, <1>3, <1>u, <1>m, <1>n, InsideStep

\* When no thread can be started the lock stays with nobody inside: the fault is remembered.
LEMMA StartJobKeeps ==
    ASSUME DashboardInv, NEW t \in RefreshThreads, NEW starts \in BOOLEAN, StartJob(t, starts)
    PROVE  DashboardInv'
  <1>u. /\ UNCHANGED <<drClock, drFile, drStored, drLock, drStatus, drLoop, drAudit, drLast>>
        /\ drFault' = (drFault \/ ~starts) /\ drThread[t].at = "announced"
    BY DEF StartJob
  <1>i. Inside(t) BY <1>u DEF Inside
  <1>o. drLock = t /\ \A u \in RefreshThreads \ {t} : ~Inside(u)
    BY <1>i, OthersAreOutside
  <1>l. drLast = "live_refresh_failed" => drFile.error # ""
    <2>2. \A u \in RefreshThreads : drThread[u].at \notin {"collected", "persisted", "ended"}
      BY <1>u, <1>o DEF Inside
    <2> QED BY <2>2 DEF DashboardInv, FileSaysFailed
  <1>f. drFault' \in BOOLEAN BY <1>u DEF DashboardInv, DashboardShape
  <1>1. CASE starts
    <2>1. drThread' \in RefreshStates /\ drThread'[t].at = "job" /\ RefreshOthersStay(t)
      BY <1>1, RefreshGoes DEF StartJob, DashboardInv, RefreshPlaces
    <2>2. DashboardShape'
      BY <2>1, <1>u, <1>f DEF DashboardInv, DashboardShape, RefreshOthersStay
    <2>m. InsideMove(t)
      BY <1>1, <1>i, <1>l, <1>u, <2>1, <2>2, DashboardClockIsInt DEF InsideMove, DashboardInv
    <2>n. Inside(t)
      BY <1>u DEF Inside
    <2> QED BY <1>1, <1>i, <1>l, <1>u, <2>1, <2>2, <2>m, <2>n, InsideStep
  <1>2. CASE ~starts
    <2>1. drThread' \in RefreshStates /\ drThread'[t].at = "idle" /\ RefreshOthersStay(t)
      BY <1>2, RefreshLeaves DEF StartJob, DashboardInv
    <2>2. DashboardShape'
      BY <2>1, <1>u, <1>f DEF DashboardInv, DashboardShape, RefreshOthersStay
    <2>3. \A u \in RefreshThreads : drThread'[u].at \in {"idle", "asked", "allowed"}
      BY <1>o, <2>1 DEF Inside, RefreshOthersStay
    <2>4. drFault' = TRUE BY <1>2, <1>u
    <2>5. LockTells' BY <2>3, <2>4 DEF LockTells, Inside
    <2>6. FileSaysFailed' BY <1>l, <1>u, <2>3 DEF FileSaysFailed
    <2> QED BY <2>2, <2>5, <2>6 DEF DashboardInv
  <1> QED BY <1>1, <1>2

LEMMA PayloadTyped ==
    ASSUME DashboardShape, NEW b \in Builds
    PROVE  Payload(b) \in Payloads
  <1>1. b \in [skew : Int, stale : BOOLEAN, slips : Slips]
    BY DashboardAssumption DEF Slips
  <1>2. drClock \in Int BY DashboardClockIsInt
  <1> QED BY <1>1, <1>2 DEF Payload, Payloads

LEMMA CollectKeeps ==
    ASSUME DashboardInv, NEW t \in RefreshThreads, NEW b \in Builds, Collect(t, b)
    PROVE  DashboardInv'
  <1>1. PICK p \in Payloads : p = Payload(b)
    BY PayloadTyped DEF DashboardInv
  <1>u. /\ UNCHANGED <<drClock, drStored, drLock, drStatus, drLoop, drAudit, drLast, drFault>>
        /\ drFile' = p /\ drThread[t].at = "job"
        /\ drThread' = [drThread EXCEPT ![t].at = "collected", ![t].payload = p]
    BY <1>1 DEF Collect
  <1>2. drThread' \in RefreshStates /\ drThread'[t].at = "collected" /\ RefreshOthersStay(t)
    BY <1>u, ZenonT(40) DEF DashboardInv, DashboardShape, RefreshStates, RefreshOthersStay, RefreshPlaces
  <1>3. DashboardShape'
    BY <1>2, <1>u DEF DashboardInv, DashboardShape, RefreshOthersStay
  <1>m. InsideMove(t)
    BY <1>2, <1>3, <1>u, DashboardClockIsInt DEF InsideMove, DashboardInv
  <1>n. Inside(t)
    BY <1>u DEF Inside
  <1> QED BY <1>2, <1>3, <1>u, <1>m, <1>n, InsideStep

LEMMA CollectRaisesKeeps ==
    ASSUME DashboardInv, NEW t \in RefreshThreads, CollectRaises(t) PROVE DashboardInv'
  <1>u. /\ UNCHANGED <<drClock, drFile, drStored, drLock, drStatus, drLoop, drAudit, drLast, drFault>>
        /\ drThread[t].at = "job" /\ Goes(t, "failed")
    BY DEF CollectRaises
  <1>2. drThread' \in RefreshStates /\ drThread'[t].at = "failed" /\ RefreshOthersStay(t)
    BY <1>u, RefreshGoes DEF DashboardInv, RefreshPlaces
  <1>3. DashboardShape'
    BY <1>2, <1>u DEF DashboardInv, DashboardShape, RefreshOthersStay
  <1>4. drLast = "live_refresh_failed" => drFile.error # ""
    <2>1. Inside(t) BY <1>u DEF Inside
    <2>2. \A u \in RefreshThreads : drThread[u].at \notin {"collected", "persisted", "ended"}
      BY <1>u, <2>1, OthersAreOutside DEF Inside
    <2> QED BY <2>2 DEF DashboardInv, FileSaysFailed
  <1>m. InsideMove(t)
    BY <1>2, <1>3, <1>4, <1>u, DashboardClockIsInt DEF InsideMove, DashboardInv
  <1>n. Inside(t)
    BY <1>u DEF Inside
  <1> QED BY <1>2, <1>3, <1>4, <1>u, <1>m, <1>n, InsideStep

LEMMA PersistPayloadKeeps ==
    ASSUME DashboardInv, NEW t \in RefreshThreads, NEW works \in BOOLEAN, PersistPayload(t, works)
    PROVE  DashboardInv'
  <1>u. /\ UNCHANGED <<drClock, drFile, drLock, drStatus, drLoop, drAudit, drLast, drFault>>
        /\ drThread[t].at = "collected" /\ drStored' \in {drStored, drThread[t].payload}
    BY DEF PersistPayload, Newer
  <1>1. drThread[t].payload \in Payloads
    BY DEF DashboardInv, DashboardShape, RefreshStates
  <1>2. /\ drThread' \in RefreshStates /\ drThread'[t].at \in {"persisted", "ended"}
        /\ drThread'[t].at = "ended" =>
              drThread'[t].result = "postgres_snapshot_persistence_failed"
        /\ RefreshOthersStay(t)
    <2>1. CASE works
      BY <2>1, RefreshGoes DEF PersistPayload, DashboardInv, RefreshPlaces
    <2>2. CASE ~works
      <3>1. drThread' = [drThread EXCEPT ![t].at = "ended",
                                         ![t].result = "postgres_snapshot_persistence_failed"]
        BY <2>2 DEF PersistPayload
      <3> QED BY <3>1, ZenonT(40)
          DEF DashboardInv, DashboardShape, RefreshStates, RefreshOthersStay, RefreshPlaces, Results
    <2> QED BY <2>1, <2>2
  <1>3. DashboardShape'
    BY <1>1, <1>2, <1>u DEF DashboardInv, DashboardShape, RefreshOthersStay
  <1>m. InsideMove(t)
    BY <1>2, <1>3, <1>u, DashboardClockIsInt DEF InsideMove, DashboardInv
  <1>n. Inside(t)
    BY <1>u DEF Inside
  <1> QED BY <1>2, <1>3, <1>u, <1>m, <1>n, InsideStep

LEMMA LogPredictionsKeeps ==
    ASSUME DashboardInv, NEW t \in RefreshThreads, log_refresh_predictions(t) PROVE DashboardInv'
  <1>u. /\ UNCHANGED <<drClock, drFile, drStored, drLock, drStatus, drLoop, drAudit, drLast, drFault>>
        /\ drThread[t].at = "persisted"
        /\ drThread' = [drThread EXCEPT ![t].at = "ended", ![t].result = "ok"]
    BY DEF log_refresh_predictions
  <1>2. /\ drThread' \in RefreshStates /\ drThread'[t].at = "ended" /\ drThread'[t].result = "ok"
        /\ RefreshOthersStay(t)
    <2>1. "ended" \in RefreshPlaces /\ "ok" \in Results
      BY DEF RefreshPlaces, Results
    <2>2. drThread \in RefreshStates
      BY DEF DashboardInv, DashboardShape
    <2> HIDE DEF Payloads, RefreshPlaces, Results, DashboardInv
    <2> QED BY <1>u, <2>1, <2>2 DEF RefreshStates, RefreshOthersStay
  <1>3. DashboardShape'
    BY <1>2, <1>u DEF DashboardInv, DashboardShape, RefreshOthersStay
  <1>m. InsideMove(t)
    BY <1>2, <1>3, <1>u, DashboardClockIsInt DEF InsideMove, DashboardInv
  <1>n. Inside(t)
    BY <1>u DEF Inside
  <1> QED BY <1>2, <1>3, <1>u, <1>m, <1>n, InsideStep

LEMMA RecordFailureKeeps ==
    ASSUME DashboardInv, NEW t \in RefreshThreads, NEW writes \in BOOLEAN, RecordFailure(t, writes)
    PROVE  DashboardInv'
  <1>u. /\ UNCHANGED <<drClock, drStored, drLock, drStatus, drAudit, drLast>>
        /\ drThread[t].at = "failed"
    BY DEF RecordFailure
  <1>i. Inside(t) BY <1>u DEF Inside
  <1>1. CASE writes
    <2>1. /\ drFile' = [drFile EXCEPT !.error = "live_refresh_failed"] /\ UNCHANGED <<drLoop, drFault>>
          /\ drThread' = [drThread EXCEPT ![t].at = "ended", ![t].result = "live_refresh_failed"]
      BY <1>1 DEF RecordFailure
    <2>2. drFile' \in Payloads /\ drFile'.error = "live_refresh_failed"
      BY <2>1 DEF DashboardInv, DashboardShape, Payloads
    <2>3. /\ drThread' \in RefreshStates /\ drThread'[t].at = "ended"
          /\ drThread'[t].result = "live_refresh_failed" /\ RefreshOthersStay(t)
      BY <2>1, ZenonT(40)
      DEF DashboardInv, DashboardShape, RefreshStates, RefreshOthersStay, RefreshPlaces, Results
    <2>4. DashboardShape'
      BY <1>u, <2>1, <2>2, <2>3 DEF DashboardInv, DashboardShape, RefreshOthersStay
    <2>m. InsideMove(t)
      BY <1>i, <1>u, <2>1, <2>2, <2>3, <2>4, DashboardClockIsInt DEF InsideMove, DashboardInv
    <2>n. Inside(t)
      BY <1>u DEF Inside
    <2> QED BY <1>i, <1>u, <2>1, <2>2, <2>3, <2>4, <2>m, <2>n, InsideStep
  <1>2. CASE ~writes
    <2>1. /\ Goes(t, "release") /\ drLoop' \in BOOLEAN /\ drFault' = TRUE /\ drFile' = drFile
      BY <1>2 DEF RecordFailure, DashboardInv, DashboardShape
    <2>2. drThread' \in RefreshStates /\ drThread'[t].at = "release" /\ RefreshOthersStay(t)
      BY <2>1, RefreshGoes DEF DashboardInv, RefreshPlaces
    <2>3. DashboardShape'
      BY <1>u, <2>1, <2>2 DEF DashboardInv, DashboardShape, RefreshOthersStay
    <2>4. drLast = "live_refresh_failed" => drFile.error # ""
      <3>1. \A u \in RefreshThreads : drThread[u].at \notin {"collected", "persisted", "ended"}
        BY <1>u, <1>i, OthersAreOutside DEF Inside
      <3> QED BY <3>1 DEF DashboardInv, FileSaysFailed
    <2>m. InsideMove(t)
      BY <1>i, <1>u, <2>1, <2>2, <2>3, <2>4, DashboardClockIsInt DEF InsideMove, DashboardInv
    <2>n. Inside(t)
      BY <1>u DEF Inside
    <2> QED BY <1>i, <1>u, <2>1, <2>2, <2>3, <2>4, <2>m, <2>n, InsideStep
  <1> QED BY <1>1, <1>2

LEMMA EndJobKeeps ==
    ASSUME DashboardInv, NEW t \in RefreshThreads, EndJob(t) PROVE DashboardInv'
  <1>u. /\ UNCHANGED <<drClock, drFile, drStored, drLock, drLoop, drFault>>
        /\ drThread[t].at = "ended" /\ drLast' = drThread[t].result /\ Goes(t, "release")
        /\ drStatus' \in {"complete", "error"}
        /\ drAudit' = Append(drAudit, [ok |-> drThread[t].result = "ok", at |-> drClock])
    BY DEF EndJob
  <1>2. drThread' \in RefreshStates /\ drThread'[t].at = "release" /\ RefreshOthersStay(t)
    BY <1>u, RefreshGoes DEF DashboardInv, RefreshPlaces
  <1>3. drAudit' \in Seq([ok : BOOLEAN, at : Int])
    <2>1. drClock \in Int BY DashboardClockIsInt DEF DashboardInv
    <2>2. PICK ok \in BOOLEAN : ok = (drThread[t].result = "ok")
      OBVIOUS
    <2>3. [ok |-> ok, at |-> drClock] \in [ok : BOOLEAN, at : Int]
      BY <2>1
    <2>4. drAudit' = Append(drAudit, [ok |-> ok, at |-> drClock])
      BY <1>u, <2>2
    <2>5. drAudit \in Seq([ok : BOOLEAN, at : Int])
      BY DEF DashboardInv, DashboardShape
    <2> QED BY <2>3, <2>4, <2>5
  <1>4. drLast' \in (Results \ {""}) \cup {"none"}
    <2>1. drThread[t].result \in Results /\ drThread[t].result # ""
      BY <1>u DEF DashboardInv, DashboardShape, RefreshStates
    <2> QED BY <1>u, <2>1
  <1>5. DashboardShape'
    BY <1>2, <1>3, <1>4, <1>u DEF DashboardInv, DashboardShape, RefreshOthersStay
  <1>6. drLast' = "live_refresh_failed" => drFile.error # ""
    BY <1>u DEF DashboardInv, FileSaysFailed
  <1>m. InsideMove(t)
    BY <1>2, <1>5, <1>6, <1>u, DashboardClockIsInt DEF InsideMove, DashboardInv
  <1>n. Inside(t)
    BY <1>u DEF Inside
  <1> QED BY <1>2, <1>5, <1>6, <1>u, <1>m, <1>n, InsideStep

LEMMA ReleaseRefreshKeeps ==
    ASSUME DashboardInv, NEW t \in RefreshThreads, ReleaseRefresh(t) PROVE DashboardInv'
  <1>u. /\ UNCHANGED <<drClock, drFile, drStored, drStatus, drLoop, drAudit, drLast, drFault>>
        /\ drThread[t].at = "release" /\ drLock' = "free" /\ Leaves(t)
    BY DEF ReleaseRefresh
  <1>1. drThread' \in RefreshStates /\ drThread'[t].at = "idle" /\ RefreshOthersStay(t)
    BY <1>u, RefreshLeaves DEF DashboardInv
  <1>2. drLock = t /\ \A u \in RefreshThreads \ {t} : ~Inside(u)
    BY <1>u, OthersAreOutside DEF Inside
  <1>3. \A u \in RefreshThreads : drThread'[u].at \in {"idle", "asked", "allowed"}
    BY <1>1, <1>2 DEF Inside, RefreshOthersStay
  <1>4. DashboardShape'
    BY <1>1, <1>u, <1>3 DEF DashboardInv, DashboardShape
  <1>5. LockTells'
    <2>1. ~drFault => drStatus # "running" /\ drLoop
      BY <1>2, <1>u, FreeIsNoThread DEF DashboardInv, LockTells
    <2> QED BY <1>3, <1>u, <2>1 DEF LockTells, Inside
  <1>6. FileSaysFailed'
    <2>1. \A u \in RefreshThreads : drThread[u].at \notin {"collected", "persisted", "ended"}
      BY <1>u, <1>2 DEF Inside
    <2> QED BY <1>3, <1>u, <2>1 DEF DashboardInv, FileSaysFailed
  <1> QED BY <1>4, <1>5, <1>6 DEF DashboardInv

LEMMA DashboardStep == ASSUME DashboardInv, drNext PROVE DashboardInv'
  <1>1. CASE DashboardTick BY <1>1, DashboardTickKeeps
  <1>2. ASSUME NEW t \in RefreshThreads, AskRefresh(t) \/ run_refresh(t) PROVE DashboardInv'
    BY <1>2, AskRefreshKeeps, CheckCooldownKeeps, AcquireRefreshKeeps, AnnounceKeeps,
       StartJobKeeps, EndJobKeeps, ReleaseRefreshKeeps
    DEF run_refresh
  <1>3. ASSUME NEW t \in RefreshThreads, refresh_payload(t) PROVE DashboardInv'
    BY <1>3, CollectKeeps, CollectRaisesKeeps, PersistPayloadKeeps, RecordFailureKeeps,
       LogPredictionsKeeps
    DEF refresh_payload
  <1> QED BY <1>1, <1>2, <1>3 DEF drNext

LEMMA DashboardUnchanged == ASSUME DashboardInv, UNCHANGED drVars PROVE DashboardInv'
  <1>1. DashboardShape' BY DEF DashboardInv, DashboardShape, drVars
  <1>2. (LockTells /\ FileSaysFailed)'
    BY DEF DashboardInv, LockTells, FileSaysFailed, Inside, drVars
  <1> QED BY <1>1, <1>2 DEF DashboardInv

LEMMA DashboardIsInductive == Spec => []DashboardInv
  <1>1. Init => DashboardInv
    BY DashboardStarts DEF Init
  <1>2. DashboardInv /\ [Next]_vars => DashboardInv'
    <2>1. [Next]_vars => drNext \/ UNCHANGED drVars
      BY DEF Next, vars, DashboardFocus
    <2> QED BY <2>1, DashboardStep, DashboardUnchanged
  <1> QED BY <1>1, <1>2, PTL DEF Spec

LEMMA OneRefreshRuns == ASSUME DashboardInv PROVE OneRefreshAtATime
  BY DEF DashboardInv, LockTells, OneRefreshAtATime

LEMMA ErrorHides == ASSUME NEW p, p.error # "" PROVE consumer_payload(p, TRUE) = {}
  <1>1. slip_payload_gate(p) = "blocked_refresh_failed" BY DEF slip_payload_gate
  <1>2. \A k \in SlipKeys : gate_slip_payload(p)[k] = "none" BY <1>1 DEF gate_slip_payload
  <1> QED BY <1>2 DEF consumer_payload

LEMMA MarkedFileHides == ASSUME DashboardInv PROVE FailureHidesFile
  <1> SUFFICES ASSUME drLock = "free", drLast = "live_refresh_failed"
               PROVE  consumer_payload(load_current_payload("file", FALSE, TRUE), TRUE) = {}
    BY DEF FailureHidesFile
  <1>1. \A t \in RefreshThreads : ~Inside(t)
    BY FreeIsNoThread DEF DashboardInv, LockTells
  <1>2. \A t \in RefreshThreads : drThread[t].at \notin {"collected", "persisted", "ended"}
    BY <1>1 DEF Inside
  <1>3. drFile.error # "" BY <1>2 DEF DashboardInv, FileSaysFailed
  <1>4. load_current_payload("file", FALSE, TRUE) = drFile BY DEF load_current_payload
  <1> QED BY <1>3, <1>4, ErrorHides

LEMMA ReadyIsFresh ==
    ASSUME DashboardShape, NEW p \in Payloads, slip_payload_gate(p) = "fresh_data_ready"
    PROVE  drClock - p.at <= MaxSlipAge /\ p.at - drClock <= FutureTolerance
  <1>1. PICK at \in Int : at = p.at BY DEF Payloads
  <1>2. drClock \in Int BY DashboardClockIsInt
  <1>3. ~ (drClock - at < -FutureTolerance) /\ ~ (drClock - at > MaxSlipAge)
    BY <1>1 DEF slip_payload_gate
  <1>4. MaxSlipAge \in Nat /\ FutureTolerance \in Nat BY DashboardAssumption
  <1>5. drClock - at <= MaxSlipAge /\ at - drClock <= FutureTolerance
    <2> HIDE DEF DashboardShape
    <2> QED BY <1>2, <1>3, <1>4
  <1> QED BY <1>1, <1>5

LEMMA ShownSlipsAreFresh == ASSUME DashboardInv PROVE ShownIsFresh
  <1> SUFFICES ASSUME NEW source \in {"file", "postgres"}, NEW p,
                      p = load_current_payload(source, FALSE, TRUE)
               PROVE  /\ consumer_payload(p, TRUE) # {} =>
                             drClock - p.at <= MaxSlipAge /\ p.at - drClock <= FutureTolerance
                      /\ "research_edge_slip" \notin consumer_payload(p, FALSE)
    BY DEF ShownIsFresh
  <1>1. ASSUME consumer_payload(p, TRUE) # {}
        PROVE  drClock - p.at <= MaxSlipAge /\ p.at - drClock <= FutureTolerance
    <2>1. p.error = "" BY <1>1, ErrorHides
    <2>2. blocked_dashboard_payload("postgres_snapshot_missing").error # ""
      BY DEF blocked_dashboard_payload, NoFile
    <2>3. p \in {drFile, drStored} BY <2>1, <2>2 DEF load_current_payload
    <2>4. p \in Payloads BY <2>3 DEF DashboardInv, DashboardShape
    <2>5. slip_payload_gate(p) = "fresh_data_ready"
      BY <1>1 DEF consumer_payload, gate_slip_payload
    <2> QED BY <2>4, <2>5, ReadyIsFresh DEF DashboardInv
  <1>2. "research_edge_slip" \notin consumer_payload(p, FALSE)
    BY DEF consumer_payload
  <1> QED BY <1>1, <1>2

\* The newest audit row is in the tail that the quality gate reads.
LEMMA FailureShows == ASSUME DashboardInv PROVE FailureIsNoticed
  <1> DEFINE Row == [ok : BOOLEAN, at : Int]
  <1> SUFFICES ASSUME NEW n, n = Len(drAudit), n > 0, ~drAudit[n].ok,
                      drClock - drAudit[n].at <= ErrorWindow,
                      \A i \in 1..n : drAudit[i].ok => drAudit[i].at < drAudit[n].at
               PROVE  build_quality_status(drStored) = "WATCH"
    BY DEF FailureIsNoticed
  <1>1. drAudit \in Seq(Row) BY DEF DashboardInv, DashboardShape
  <1>2. n \in Nat /\ DOMAIN drAudit = 1..n BY <1>1
  <1>3. PICK m \in 1..n : m = (IF n > 10 THEN n - 9 ELSE 1) BY <1>2
  <1>4. PICK k \in 1..n : k = n - m + 1
    <2>1. n - m + 1 \in 1..n BY <1>2
    <2> QED BY <2>1
  <1>5. AuditTail = SubSeq(drAudit, m, n) BY <1>3 DEF AuditTail
  <1> HIDE DEF Row
  <1>6. DOMAIN AuditTail = 1..k /\ \A j \in 1..k : AuditTail[j] = drAudit[m + j - 1]
    BY <1>1, <1>2, <1>4, <1>5
  <1>7. \A j \in 1..k : m + j - 1 \in 1..n BY <1>2, <1>4
  <1>8. AuditTail[k] = drAudit[n]
    <2>1. m + k - 1 = n /\ k \in 1..k BY <1>2, <1>4
    <2> QED BY <1>6, <2>1
  <1>9. \A j \in DOMAIN AuditTail : AuditTail[j].ok => AuditTail[k].at > AuditTail[j].at
    <2> TAKE j \in DOMAIN AuditTail
    <2>1. j \in 1..k /\ m + j - 1 \in 1..n BY <1>6, <1>7
    <2>2. drAudit[n] \in Row /\ drAudit[m + j - 1] \in Row BY <1>1, <1>2, <2>1
    <2>3. drAudit[n].at \in Int /\ drAudit[m + j - 1].at \in Int BY <2>2 DEF Row
    <2>4. AuditTail[j] = drAudit[m + j - 1] BY <1>6, <2>1
    <2> QED BY <1>8, <2>1, <2>3, <2>4
  <1>10. k \in active_refresh_errors
    <2>1. k \in DOMAIN AuditTail BY <1>2, <1>6
    <2>2. ~AuditTail[k].ok /\ drClock - AuditTail[k].at <= ErrorWindow BY <1>8
    <2> QED BY <1>9, <2>1, <2>2 DEF active_refresh_errors
  <1>11. "active_refresh_errors_present" \in build_dashboard_quality_gate(drStored)
    BY <1>10 DEF build_dashboard_quality_gate
  <1> QED BY <1>11 DEF build_quality_status

----------------------------------------------------------------------------
(* DashboardRefresh: following next from page to page *)

\* The pages of s show each of the records above a up to n once, and no other.
Covers(s, a, n) ==
    /\ s \in Seq(SUBSET (a + 1..n))
    /\ \A r \in a + 1..n : \E i \in DOMAIN s :
          r \in s[i] /\ \A j \in DOMAIN s : r \in s[j] => i = j

LEMMA LastPageCovers ==
    ASSUME NEW a \in Nat, NEW n \in Nat PROVE Covers(<<a + 1..n>>, a, n)
  <1> DEFINE P == a + 1..n
             s == <<P>>
  <1>1. s \in Seq(SUBSET P) /\ DOMAIN s = {1} /\ s[1] = P OBVIOUS
  <1> HIDE DEF P, s
  <1>2. \A r \in P : \E i \in DOMAIN s : r \in s[i] /\ \A j \in DOMAIN s : r \in s[j] => i = j
    BY <1>1
  <1> QED BY <1>1, <1>2 DEF Covers, P, s

LEMMA PageInFront ==
    ASSUME NEW a \in Nat, NEW n \in Nat, NEW b \in a..n, NEW s, Covers(s, b, n)
    PROVE  Covers(<<a + 1..b>> \o s, a, n)
  <1> DEFINE P == a + 1..b
             S == SUBSET (a + 1..n)
             w == <<P>> \o s
  <1>1. P \in S /\ SUBSET (b + 1..n) \subseteq S
    OBVIOUS
  <1>2. s \in Seq(SUBSET (b + 1..n)) BY DEF Covers
  <1>3. s \in Seq(S)
    <2> HIDE DEF S
    <2> QED BY <1>1, <1>2
  <1>4. \A r \in b + 1..n : r \notin P
    OBVIOUS
  <1>5. \A r \in P : r \notin b + 1..n
    OBVIOUS
  <1>6. \A r \in a + 1..n : r \in P \/ r \in b + 1..n
    OBVIOUS
  <1>7. \A j \in DOMAIN s : s[j] \subseteq b + 1..n
    BY <1>2
  <1>8. \A r \in b + 1..n : \E i \in DOMAIN s :
          r \in s[i] /\ \A j \in DOMAIN s : r \in s[j] => i = j
    BY DEF Covers
  <1> HIDE DEF P, S
  <1>9. /\ w \in Seq(S) /\ w[1] = P /\ Len(s) \in Nat /\ DOMAIN s = 1..Len(s)
        /\ DOMAIN w = 1..Len(s) + 1
        /\ \A j \in DOMAIN s : w[j + 1] = s[j]
    BY <1>1, <1>3
  <1> HIDE DEF w
  <1>10. ASSUME NEW r \in a + 1..n
         PROVE  \E i \in DOMAIN w : r \in w[i] /\ \A j \in DOMAIN w : r \in w[j] => i = j
    <2>0. \A j \in DOMAIN w : j = 1 \/ (j - 1 \in DOMAIN s /\ w[j] = s[j - 1])
      <3> TAKE j \in DOMAIN w
      <3>1. j = 1 \/ (j - 1 \in DOMAIN s /\ j = (j - 1) + 1) BY <1>9
      <3> QED BY <1>9, <3>1
    <2>1. CASE r \in P
      <3>1. \A j \in DOMAIN w : r \in w[j] => j = 1 BY <1>5, <1>7, <2>0, <2>1
      <3>2. 1 \in DOMAIN w /\ r \in w[1] BY <1>9, <2>1
      <3> QED BY <3>1, <3>2
    <2>2. CASE r \in b + 1..n
      <3>1. PICK i \in DOMAIN s : r \in s[i] /\ \A j \in DOMAIN s : r \in s[j] => i = j
        BY <1>8, <2>2
      <3>2. i + 1 \in DOMAIN w /\ r \in w[i + 1] BY <1>9, <3>1
      <3>3. \A j \in DOMAIN w : r \in w[j] => i + 1 = j
        <4> TAKE j \in DOMAIN w
        <4> HAVE r \in w[j]
        <4>1. j # 1 BY <1>4, <1>9, <2>2
        <4>2. i = j - 1 BY <2>0, <3>1, <4>1
        <4> QED BY <1>9, <4>2
      <3> QED BY <3>2, <3>3
    <2> QED BY <1>6, <2>1, <2>2
  <1> QED BY <1>9, <1>10 DEF Covers, w, P, S

\* One call of the recursion of PagesFrom, and from which offset on two sequences of
\* pages agree or cover the records.
FollowNext(f, n, limit) ==
    [o \in 0..n |-> LET q == build_detail_collection_payload(drFile, n, o, limit)
                    IN  IF q.next = 0 THEN <<q.items>> ELSE <<q.items>> \o f[q.next]]
AgreeAfter(f, g, n, k) == \A o \in 0..n : o > n - k => f[o] = g[o]
CoversAfter(f, n, k) == \A o \in 0..n : o > n - k => Covers(f[o], o, n)

PageEndsAt(q, o, n, b) ==
    /\ q.items = o + 1..b
    /\ \/ b = n /\ q.next = 0
       \/ o < b /\ b < n /\ q.next = b

\* A page ends where the next one starts, and moves on unless it is the last.
LEMMA PageEnds ==
    ASSUME slip_payload_gate(drFile) = "fresh_data_ready", NEW n \in Nat,
           NEW limit \in Nat \ {0}, NEW o \in 0..n
    PROVE  \E b \in o..n : PageEndsAt(build_detail_collection_payload(drFile, n, o, limit), o, n, b)
  <1>1. MaxDetailPage \in Nat \ {0} BY DashboardAssumption
  <1>2. PICK size \in Nat \ {0} : size = Bounded(limit, MaxDetailPage)
    BY <1>1 DEF Bounded
  <1>3. Bounded(o, n) = o BY DEF Bounded
  <1>4. PICK shown \in 0..n - o : /\ shown = Bounded(size, n - o)
                                  /\ o + shown = n \/ shown > 0
    <2>1. Bounded(size, n - o) \in 0..n - o BY <1>2 DEF Bounded
    <2>2. o + Bounded(size, n - o) = n \/ Bounded(size, n - o) > 0 BY <1>2 DEF Bounded
    <2> QED BY <2>1, <2>2
  <1>5. o + shown \in o..n BY <1>4
  <1>6. build_detail_collection_payload(drFile, n, o, limit) =
          [items |-> o + 1..o + shown, next |-> IF o + shown < n THEN o + shown ELSE 0]
    BY <1>2, <1>3, <1>4 DEF build_detail_collection_payload
  <1>7. PICK b \in o..n : b = o + shown BY <1>5
  <1>8. b = n \/ (o < b /\ b < n) BY <1>4, <1>7
  <1>9. build_detail_collection_payload(drFile, n, o, limit) =
          [items |-> o + 1..b, next |-> IF b < n THEN b ELSE 0]
    BY <1>6, <1>7
  <1> QED BY <1>8, <1>9 DEF PageEndsAt

LEMMA AgreementGrows ==
    ASSUME slip_payload_gate(drFile) = "fresh_data_ready", NEW n \in Nat,
           NEW limit \in Nat \ {0}, NEW f, NEW g, NEW k \in Nat, AgreeAfter(f, g, n, k)
    PROVE  AgreeAfter(FollowNext(f, n, limit), FollowNext(g, n, limit), n, k + 1)
  <1> SUFFICES ASSUME NEW o \in 0..n, o > n - (k + 1)
               PROVE  FollowNext(f, n, limit)[o] = FollowNext(g, n, limit)[o]
    BY DEF AgreeAfter
  <1>1. PICK q : q = build_detail_collection_payload(drFile, n, o, limit) OBVIOUS
  <1>2. /\ FollowNext(f, n, limit)[o] = IF q.next = 0 THEN <<q.items>> ELSE <<q.items>> \o f[q.next]
        /\ FollowNext(g, n, limit)[o] = IF q.next = 0 THEN <<q.items>> ELSE <<q.items>> \o g[q.next]
    BY <1>1 DEF FollowNext
  <1>3. PICK b \in o..n : PageEndsAt(q, o, n, b)
    BY <1>1, PageEnds
  <1>4. q.next # 0 => f[q.next] = g[q.next]
    <2> HAVE q.next # 0
    <2>1. q.next = b /\ o < b BY <1>3 DEF PageEndsAt
    <2>2. b \in 0..n /\ b > n - k BY <2>1
    <2> QED BY <2>1, <2>2 DEF AgreeAfter
  <1> QED BY <1>2, <1>4

LEMMA CoverGrows ==
    ASSUME slip_payload_gate(drFile) = "fresh_data_ready", NEW n \in Nat,
           NEW limit \in Nat \ {0}, NEW f, f = FollowNext(f, n, limit),
           NEW k \in Nat, CoversAfter(f, n, k)
    PROVE  CoversAfter(f, n, k + 1)
  <1> SUFFICES ASSUME NEW o \in 0..n, o > n - (k + 1) PROVE Covers(f[o], o, n)
    BY DEF CoversAfter
  <1>1. PICK q : q = build_detail_collection_payload(drFile, n, o, limit) OBVIOUS
  <1>2. f[o] = IF q.next = 0 THEN <<q.items>> ELSE <<q.items>> \o f[q.next]
    BY <1>1 DEF FollowNext
  <1>3. PICK b \in o..n : PageEndsAt(q, o, n, b)
    BY <1>1, PageEnds
  <1>4. CASE b = n /\ q.next = 0
    <2>1. f[o] = <<o + 1..n>> BY <1>2, <1>3, <1>4 DEF PageEndsAt
    <2> QED BY <2>1, LastPageCovers
  <1>5. CASE o < b /\ b < n /\ q.next = b
    <2>1. q.next # 0 BY <1>5
    <2>2. f[o] = <<o + 1..b>> \o f[b] BY <1>2, <1>3, <1>5, <2>1 DEF PageEndsAt
    <2>3. b \in 0..n /\ b > n - k BY <1>5
    <2>4. Covers(f[b], b, n) BY <2>3 DEF CoversAfter
    <2> QED BY <2>2, <2>4, PageInFront
  <1> QED BY <1>3, <1>4, <1>5 DEF PageEndsAt

\* The recursion has a solution, which PagesFrom is.
LEMMA PagesFollowNext ==
    ASSUME slip_payload_gate(drFile) = "fresh_data_ready", NEW n \in 0..3,
           NEW limit \in Nat \ {0}
    PROVE  PagesFrom(n, limit) = FollowNext(PagesFrom(n, limit), n, limit)
  <1> DEFINE Is(f) == f = FollowNext(f, n, limit)
             Step(f) == FollowNext(f, n, limit)
  <1>n. n \in Nat OBVIOUS
  <1>1. PagesFrom(n, limit) = CHOOSE f : Is(f)
    BY Zenon DEF PagesFrom, FollowNext
  <1>2. PICK f0 : f0 = [o \in 0..n |-> << >>] OBVIOUS
  <1>3. PICK f1 : f1 = Step(f0) OBVIOUS
  <1>4. PICK f2 : f2 = Step(f1) OBVIOUS
  <1>5. PICK f3 : f3 = Step(f2) OBVIOUS
  <1>6. PICK f4 : f4 = Step(f3) OBVIOUS
  <1>7. PICK f5 : f5 = Step(f4) OBVIOUS
  <1>8. \A f, g : \A k \in Nat :
          AgreeAfter(f, g, n, k) => AgreeAfter(Step(f), Step(g), n, k + 1)
    BY <1>n, AgreementGrows
  <1> HIDE DEF Step
  <1>9. AgreeAfter(f0, f1, n, 0) BY DEF AgreeAfter
  <1>10. AgreeAfter(f1, f2, n, 1) BY <1>3, <1>4, <1>8, <1>9
  <1>11. AgreeAfter(f2, f3, n, 2) BY <1>4, <1>5, <1>8, <1>10
  <1>12. AgreeAfter(f3, f4, n, 3) BY <1>5, <1>6, <1>8, <1>11
  <1>13. AgreeAfter(f4, f5, n, 4) BY <1>6, <1>7, <1>8, <1>12
  <1>14. \A o \in 0..n : f4[o] = f5[o] BY <1>13 DEF AgreeAfter
  <1>15. f4 = f5
    <2>1. \A f : DOMAIN Step(f) = 0..n /\ Step(f) = [o \in 0..n |-> Step(f)[o]]
      BY DEF Step, FollowNext
    <2>2. f4 = [o \in 0..n |-> f4[o]] /\ f5 = [o \in 0..n |-> f5[o]]
      BY <1>6, <1>7, <2>1
    <2> QED BY <1>14, <2>2
  <1>16. Is(f4) BY <1>7, <1>15 DEF Step
  <1>17. Is(CHOOSE f : Is(f))
    <2> HIDE DEF Is
    <2> QED BY <1>16, Zenon
  <1>18. Is(PagesFrom(n, limit))
    <2> HIDE DEF Is
    <2> QED BY <1>1, <1>17
  <1> QED BY <1>18

LEMMA PagesCoverTheRecords == DetailPagesCover
  <1> SUFFICES ASSUME NEW n \in 0..3, NEW limit \in DetailPages \ {0},
                      slip_payload_gate(drFile) = "fresh_data_ready"
               PROVE  \A r \in 1..n : \E i \in DOMAIN PagesFrom(n, limit)[0] :
                          /\ r \in PagesFrom(n, limit)[0][i]
                          /\ \A j \in DOMAIN PagesFrom(n, limit)[0] :
                                r \in PagesFrom(n, limit)[0][j] => i = j
    BY DEF DetailPagesCover
  <1>1. limit \in Nat \ {0} /\ n \in Nat BY DashboardAssumption
  <1>2. PICK f : f = PagesFrom(n, limit) /\ f = FollowNext(f, n, limit)
    BY <1>1, PagesFollowNext
  <1>3. \A k \in Nat : CoversAfter(f, n, k) => CoversAfter(f, n, k + 1)
    BY <1>1, <1>2, CoverGrows
  <1>4. CoversAfter(f, n, 0) BY DEF CoversAfter
  <1>5. CoversAfter(f, n, 1) BY <1>3, <1>4
  <1>6. CoversAfter(f, n, 2) BY <1>3, <1>5
  <1>7. CoversAfter(f, n, 3) BY <1>3, <1>6
  <1>8. CoversAfter(f, n, 4) BY <1>3, <1>7
  <1>9. Covers(f[0], 0, n) BY <1>8 DEF CoversAfter
  <1> QED BY <1>2, <1>9 DEF Covers

LEMMA DashboardTyped == ASSUME DashboardInv PROVE drTypeOK
  <1>1. \A t \in RefreshThreads : drThread[t].at \in RefreshPlaces
    BY DEF DashboardInv, DashboardShape, RefreshStates
  <1>2. drLast \in (Results \ {""}) \cup {"none"}
    BY DEF DashboardInv, DashboardShape
  <1> QED BY <1>1, <1>2 DEF DashboardInv, DashboardShape, drTypeOK, RefreshPlaces, Results

\* paper_server.py and operator_inbox.py: whatever the threads of the dashboard do, and
\* whenever a thread cannot be started or a file not be written, one refresh runs at a
\* time, a failed one hides the slips of the file and shows in the quality gate, no
\* slip older than allowed is shown, and the pages of a collection show each record
\* once; a message of the inbox is one agent's, and the list shows the urgent first.
THEOREM OperatorsServed == Spec => []OperatorsAreServed
  <1>1. DashboardInv /\ InboxInv => OperatorsAreServed
    BY OneRefreshRuns, MarkedFileHides, ShownSlipsAreFresh, FailureShows, PagesCoverTheRecords,
       OneAgentHoldsIt, ListedAreUrgent
    DEF OperatorsAreServed
  <1> QED BY <1>1, DashboardIsInductive, InboxIsInductive, PTL

----------------------------------------------------------------------------
(* FleetStatus: a status that is built names the trouble there is. *)

FleetRows == [phase : {"asleep", "running", "dead"}, due : Int, heartbeat : Int,
              failures : Nat, data : Int, source : Int]
\* A worker that failed has a row.
RowTells(row) == row.heartbeat >= -1 /\ (row.failures > 0 => row.heartbeat >= 0)

\* The rows that a status is built from are those of its workers, but for those whose
\* worker wrote since.
FleetInv ==
    /\ fsClock \in 0..MaxFleetClock
    /\ fsWorker \in [Services -> FleetRows]
    /\ fsReporter \in [at : {"asleep", "building", "status", "completed", "failed"},
                       workers : [Services -> FleetRows], checked : Int]
    /\ fsReporter.checked <= fsClock
    /\ \A s \in Services :
          /\ RowTells(fsWorker[s]) /\ RowTells(fsReporter.workers[s])
          /\ fsWorker[s].heartbeat <= fsClock
          /\ fsWorker[s].data <= fsClock /\ fsWorker[s].source <= fsClock
    /\ fsReporter.at = "status" =>
          \A s \in Services : \/ fsReporter.workers[s].heartbeat = fsWorker[s].heartbeat
                              \/ fsWorker[s].heartbeat >= fsReporter.checked

LEMMA FleetClockIsInt == ASSUME FleetInv PROVE fsClock \in Nat
  <1>1. MaxFleetClock \in Nat BY FleetAssumption
  <1>2. fsClock \in 0..MaxFleetClock BY DEF FleetInv
  <1> HIDE DEF FleetInv
  <1> QED BY <1>1, <1>2

LEMMA UnstartedTells ==
    /\ Unstarted \in FleetRows /\ RowTells(Unstarted)
    /\ NoReporter.workers \in [Services -> FleetRows] /\ NoReporter.checked = 0
    /\ NoReporter.at = "asleep" /\ \A s \in Services : RowTells(NoReporter.workers[s])
  <1>1. Unstarted \in FleetRows /\ RowTells(Unstarted) BY DEF Unstarted, FleetRows, RowTells
  <1> QED BY <1>1 DEF NoReporter

LEMMA NoReporterTyped ==
    NoReporter \in [at : {"asleep", "building", "status", "completed", "failed"},
                    workers : [Services -> FleetRows], checked : Int]
  <1>1. Unstarted \in FleetRows BY UnstartedTells
  <1> HIDE DEF FleetRows
  <1> QED BY <1>1 DEF NoReporter

LEMMA FleetStarts == ASSUME fsInit PROVE FleetInv
  <1>1. fsClock \in 0..MaxFleetClock BY FleetAssumption DEF fsInit
  <1>2. fsClock = 0 /\ fsReporter = NoReporter /\ fsWorker = [s \in Services |-> Unstarted]
    BY DEF fsInit
  <1>3. \A s \in Services : /\ RowTells(fsWorker[s]) /\ fsWorker[s].heartbeat = -1
                            /\ fsWorker[s].data = -1 /\ fsWorker[s].source = -1
    BY <1>2, UnstartedTells DEF Unstarted
  <1>4. fsWorker \in [Services -> FleetRows] BY <1>2, UnstartedTells
  <1> QED BY <1>1, <1>2, <1>3, <1>4, UnstartedTells, NoReporterTyped DEF FleetInv

\* What a step leaves true that lets the reporter's cycle alone.
LEMMA ReporterWaits ==
    ASSUME FleetInv, NEW now \in 0..MaxFleetClock, fsClock <= now, fsClock' = now,
           fsReporter' = fsReporter, fsWorker' \in [Services -> FleetRows],
           \A s \in Services :
              /\ RowTells(fsWorker'[s])
              /\ fsWorker'[s].heartbeat \in {fsWorker[s].heartbeat, fsClock}
              /\ fsWorker'[s].data <= now /\ fsWorker'[s].source <= now
    PROVE  FleetInv'
  <1>1. fsClock \in Nat /\ now \in Nat BY FleetClockIsInt, FleetAssumption
  <1>2. fsReporter.checked \in Int /\ fsReporter.checked <= fsClock BY DEF FleetInv
  <1>3. \A s \in Services : fsWorker[s].heartbeat \in Int
    BY DEF FleetInv, FleetRows
  <1>4. \A s \in Services : fsWorker'[s].heartbeat <= now
    BY <1>1, <1>3 DEF FleetInv
  <1>5. ASSUME fsReporter.at = "status", NEW s \in Services
        PROVE  \/ fsReporter.workers[s].heartbeat = fsWorker'[s].heartbeat
               \/ fsWorker'[s].heartbeat >= fsReporter.checked
    BY <1>1, <1>2, <1>5 DEF FleetInv
  <1>6. fsReporter.checked <= now BY <1>1, <1>2
  <1> QED BY <1>4, <1>5, <1>6 DEF FleetInv

LEMMA FleetTickKeeps == ASSUME FleetInv, FleetTick PROVE FleetInv'
  <1>1. PICK now \in 0..MaxFleetClock : now = fsClock + 1
    <2>1. fsClock \in Nat /\ fsClock < MaxFleetClock /\ MaxFleetClock \in Nat
      BY FleetClockIsInt, FleetAssumption DEF FleetTick
    <2> QED BY <2>1
  <1>2. fsClock <= now BY <1>1, FleetClockIsInt
  <1>3. fsClock' = now /\ fsWorker' = fsWorker /\ fsReporter' = fsReporter
    BY <1>1 DEF FleetTick
  <1>4. /\ fsWorker \in [Services -> FleetRows]
        /\ \A s \in Services : RowTells(fsWorker[s])
    BY DEF FleetInv
  <1>5. ASSUME NEW s \in Services PROVE fsWorker[s].data <= now /\ fsWorker[s].source <= now
    <2>1. /\ fsWorker[s].data <= fsClock /\ fsWorker[s].source <= fsClock
          /\ fsWorker[s].data \in Int /\ fsWorker[s].source \in Int
      BY DEF FleetInv, FleetRows
    <2> QED BY <1>1, <2>1, FleetClockIsInt
  <1> QED BY <1>2, <1>3, <1>4, <1>5, ReporterWaits

LEMMA FleetRowKeeps ==
    ASSUME FleetInv, NEW s \in Services, NEW row \in FleetRows, RowTells(row),
           fsWorker' = [fsWorker EXCEPT ![s] = row],
           row.heartbeat \in {fsWorker[s].heartbeat, fsClock},
           row.data <= fsClock, row.source <= fsClock,
           UNCHANGED <<fsClock, fsReporter>>
    PROVE  FleetInv'
  <1>1. /\ fsWorker \in [Services -> FleetRows]
        /\ \A r \in Services : /\ RowTells(fsWorker[r])
                               /\ fsWorker[r].data <= fsClock /\ fsWorker[r].source <= fsClock
        /\ fsClock \in 0..MaxFleetClock /\ fsClock <= fsClock
    BY FleetClockIsInt DEF FleetInv
  <1>2. fsWorker' \in [Services -> FleetRows] BY <1>1
  <1>3. fsWorker'[s] = row /\ \A r \in Services \ {s} : fsWorker'[r] = fsWorker[r] BY <1>1
  <1>4. \A r \in Services : /\ RowTells(fsWorker'[r])
                            /\ fsWorker'[r].heartbeat \in {fsWorker[r].heartbeat, fsClock}
                            /\ fsWorker'[r].data <= fsClock /\ fsWorker'[r].source <= fsClock
    BY <1>1, <1>3
  <1> QED BY <1>1, <1>2, <1>4, ReporterWaits

LEMMA BeginCycleKeeps ==
    ASSUME FleetInv, NEW s \in Services, BeginCycle(s) PROVE FleetInv'
  <1>1. PICK w \in FleetRows : w = fsWorker[s] BY DEF FleetInv
  <1>2. PICK row : row = [w EXCEPT !.phase = "running", !.heartbeat = fsClock] OBVIOUS
  <1>3. fsClock \in Nat BY FleetClockIsInt
  <1>4. row \in FleetRows /\ row.heartbeat = fsClock /\ row.data = w.data /\ row.source = w.source
        /\ RowTells(row)
    <2>0. row = [phase |-> "running", due |-> w.due, heartbeat |-> fsClock,
                 failures |-> w.failures, data |-> w.data, source |-> w.source]
      BY <1>1, <1>2 DEF FleetRows
    <2>1. row \in FleetRows BY <1>1, <1>3, <2>0 DEF FleetRows
    <2>2. row.heartbeat = fsClock /\ row.data = w.data /\ row.source = w.source
      BY <2>0
    <2>3. RowTells(row) BY <1>3, <2>2 DEF RowTells
    <2> QED BY <2>1, <2>2, <2>3
  <1>5. fsWorker' = [fsWorker EXCEPT ![s] = row] /\ UNCHANGED <<fsClock, fsReporter>>
    BY <1>1, <1>2 DEF BeginCycle
  <1>6. w.data <= fsClock /\ w.source <= fsClock BY <1>1 DEF FleetInv
  <1> QED BY <1>4, <1>5, <1>6, FleetRowKeeps

\* Every operation says of a freshness column what may become of it.
LEMMA CyclesTellFreshness ==
    ASSUME NEW s \in Services, NEW cycle \in ServiceCycles[s]
    PROVE  cycle.data \in Freshness /\ cycle.source \in Freshness
  <1>1. ASSUME NEW outcome, NEW records, NEW idle, NEW data \in Freshness, NEW source \in Freshness,
               cycle = Cycle(outcome, records, idle, data, source)
        PROVE  cycle.data \in Freshness /\ cycle.source \in Freshness
    BY <1>1 DEF Cycle
  <1>2. PICK f \in Findings : cycle = build_service_operation(s, f) BY DEF ServiceCycles
  <1>3. "kept" \in Freshness /\ "now" \in Freshness /\ "earlier" \in Freshness BY DEF Freshness
  <1>4. s \in {"kalshi-market-ingestion", "external-source-ingestion", "crypto-research",
               "sports-research", "research-model-refresh", "settlement-worker", "raw-retention"}
    BY FleetAssumption DEF ServiceNames
  <1>5. \E outcome, records, idle : \E data \in Freshness, source \in Freshness :
           cycle = Cycle(outcome, records, idle, data, source)
    <2>1. CASE s = "kalshi-market-ingestion"
      BY <1>2, <1>3, <2>1 DEF build_service_operation, _kalshi_ingestion_operation, Raises
    <2>2. CASE s = "external-source-ingestion"
      BY <1>2, <1>3, <2>2 DEF build_service_operation, _external_source_operation, Raises
    <2>3. CASE s = "crypto-research"
      BY <1>2, <1>3, <2>3 DEF build_service_operation, _crypto_operation, Raises
    <2>4. CASE s = "sports-research"
      BY <1>2, <1>3, <2>4 DEF build_service_operation, _sports_operation, Raises, Fatal
    <2>5. CASE s = "settlement-worker"
      BY <1>2, <1>3, <2>5 DEF build_service_operation, _settlement_operation, Raises, Fatal
    <2>6. CASE s = "research-model-refresh"
      BY <1>2, <1>3, <2>6 DEF build_service_operation, _research_model_operation, Raises, Fatal
    <2>7. CASE s = "raw-retention"
      BY <1>2, <1>3, <2>7 DEF build_service_operation, _retention_operation, Raises
    <2> QED BY <1>4, <2>1, <2>2, <2>3, <2>4, <2>5, <2>6, <2>7
  <1> QED BY <1>1, <1>5

\* A freshness column never tells of the future.
LEMMA StampsArePast ==
    ASSUME NEW now \in Nat, fsClock = now, NEW freshness \in Freshness, NEW old \in Int,
           old <= now, NEW began \in Int, NEW stamp \in Stamps(freshness, old, began)
    PROVE  stamp \in Int /\ stamp <= now
  <1>1. CASE freshness = "kept" BY <1>1 DEF Stamps
  <1>2. CASE freshness = "now" BY <1>2 DEF Stamps
  <1>3. CASE freshness = "earlier" BY <1>3 DEF Stamps
  <1> QED BY <1>1, <1>2, <1>3 DEF Freshness

LEMMA EndCycleKeeps ==
    ASSUME FleetInv, NEW s \in Services, NEW cycle \in ServiceCycles[s], EndCycle(s, cycle)
    PROVE  FleetInv'
  <1>1. PICK w \in FleetRows : w = fsWorker[s] BY DEF FleetInv
  <1>2. /\ w.heartbeat \in Int /\ w.data \in Int /\ w.source \in Int
        /\ w.failures \in Nat /\ w.failures + 1 \in Nat
    BY <1>1 DEF FleetRows
  <1>3. fsClock \in Nat BY FleetClockIsInt
  <1>4. PICK due : due = fsClock + FleetCadence[s] OBVIOUS
  <1>5. due \in Int BY <1>3, <1>4, FleetAssumption
  <1>6. w.data <= fsClock /\ w.source <= fsClock BY <1>1 DEF FleetInv
  <1>e. PICK ended : ended = [w EXCEPT !.phase = "asleep", !.due = due, !.heartbeat = fsClock]
    OBVIOUS
  <1>f. ended = [phase |-> "asleep", due |-> due, heartbeat |-> fsClock,
                 failures |-> w.failures, data |-> w.data, source |-> w.source]
    BY <1>1, <1>e DEF FleetRows
  <1> DEFINE Ended(n, data, source) ==
               [phase |-> "asleep", due |-> due, heartbeat |-> fsClock, failures |-> n,
                data |-> data, source |-> source]
  <1>7. PICK n \in Nat, data \in Int, source \in Int :
          /\ data <= fsClock /\ source <= fsClock
          /\ fsWorker' = [fsWorker EXCEPT ![s] = Ended(n, data, source)]
    <2>1. CASE Succeeds(s, cycle)
      <3>1. PICK data \in Stamps(cycle.data, w.data, w.heartbeat),
                 source \in Stamps(cycle.source, w.source, w.heartbeat) :
              fsWorker' = [fsWorker EXCEPT ![s] =
                 [ended EXCEPT !.failures = 0, !.data = data, !.source = source]]
        BY <1>1, <1>4, <1>e, <2>1 DEF EndCycle
      <3>2. /\ data \in Int /\ data <= fsClock
            /\ source \in Int /\ source <= fsClock
        BY <1>2, <1>3, <1>6, <3>1, CyclesTellFreshness, StampsArePast
      <3>3. [ended EXCEPT !.failures = 0, !.data = data, !.source = source]
            = Ended(0, data, source)
        <4>1. PICK a : a = [ended EXCEPT !.failures = 0] OBVIOUS
        <4>2. a = [phase |-> "asleep", due |-> due, heartbeat |-> fsClock, failures |-> 0,
                   data |-> w.data, source |-> w.source]
          BY <1>f, <4>1
        <4>3. PICK b : b = [a EXCEPT !.data = data] OBVIOUS
        <4>4. b = [phase |-> "asleep", due |-> due, heartbeat |-> fsClock, failures |-> 0,
                   data |-> data, source |-> w.source]
          BY <4>2, <4>3
        <4>5. [b EXCEPT !.source = source] = Ended(0, data, source) BY <4>4
        <4> QED BY <4>1, <4>3, <4>5
      <3> HIDE DEF Ended
      <3>4. fsWorker' = [fsWorker EXCEPT ![s] = Ended(0, data, source)] BY <3>1, <3>3
      <3> QED BY <3>2, <3>4
    <2>2. CASE ~Succeeds(s, cycle)
      <3>1. fsWorker' = [fsWorker EXCEPT ![s] =
               [ended EXCEPT !.failures = @ + 1]]
        BY <1>1, <1>4, <1>e, <2>2 DEF EndCycle
      <3>2. [ended EXCEPT !.failures = @ + 1] = Ended(w.failures + 1, w.data, w.source)
        BY <1>f
      <3> HIDE DEF Ended
      <3>3. fsWorker' = [fsWorker EXCEPT ![s] = Ended(w.failures + 1, w.data, w.source)]
        BY <3>1, <3>2
      <3> QED BY <1>2, <1>6, <3>3
    <2> QED BY <2>1, <2>2
  <1>8. PICK row : row = Ended(n, data, source) OBVIOUS
  <1>9. row \in FleetRows BY <1>3, <1>5, <1>7, <1>8 DEF FleetRows
  <1>10. row.heartbeat = fsClock /\ row.data <= fsClock /\ row.source <= fsClock
    BY <1>7, <1>8
  <1>11. RowTells(row) BY <1>3, <1>10 DEF RowTells
  <1>12. UNCHANGED <<fsClock, fsReporter>> BY DEF EndCycle
  <1> QED BY <1>7, <1>8, <1>9, <1>10, <1>11, <1>12, FleetRowKeeps

LEMMA WorkerStopsKeeps ==
    ASSUME FleetInv, NEW s \in Services, WorkerStops(s) PROVE FleetInv'
  <1>1. PICK w \in FleetRows : w = fsWorker[s] BY DEF FleetInv
  <1>2. PICK row : row = [w EXCEPT !.phase = "dead"] OBVIOUS
  <1>3. RowTells(w) /\ w.data <= fsClock /\ w.source <= fsClock BY <1>1 DEF FleetInv
  <1>4. row \in FleetRows BY <1>1, <1>2 DEF FleetRows
  <1>5. /\ row.heartbeat = w.heartbeat /\ row.failures = w.failures
        /\ row.data = w.data /\ row.source = w.source
    BY <1>1, <1>2 DEF FleetRows
  <1>6. RowTells(row) BY <1>3, <1>5 DEF RowTells
  <1>7. fsWorker' = [fsWorker EXCEPT ![s] = row] /\ UNCHANGED <<fsClock, fsReporter>>
    BY <1>1, <1>2 DEF WorkerStops
  <1> QED BY <1>1, <1>3, <1>4, <1>5, <1>6, <1>7, FleetRowKeeps

\* A step of the reporter lets the workers alone.
LEMMA ReportingKeeps == ASSUME FleetInv, _reporting_operation PROVE FleetInv'
  <1>u. fsClock' = fsClock /\ fsWorker' = fsWorker
    BY DEF _reporting_operation, start_report_refresh, BuildReports, send_monitoring_alerts,
           finish_report_refresh
  <1>c. fsClock \in Nat BY FleetClockIsInt
  <1>1. ASSUME fsReporter'.at # "status", fsReporter' \in
                   [at : {"asleep", "building", "status", "completed", "failed"},
                    workers : [Services -> FleetRows], checked : Int],
               fsReporter'.checked <= fsClock,
               \A s \in Services : RowTells(fsReporter'.workers[s])
        PROVE  FleetInv'
    BY <1>u, <1>1 DEF FleetInv
  <1>2. ASSUME NEW at \in {"building", "failed"}, fsReporter' = [fsReporter EXCEPT !.at = at]
        PROVE  FleetInv'
    <2>1. /\ fsReporter' \in [at : {"asleep", "building", "status", "completed", "failed"},
                              workers : [Services -> FleetRows], checked : Int]
          /\ fsReporter'.at = at /\ fsReporter'.checked = fsReporter.checked
          /\ fsReporter'.workers = fsReporter.workers
      <3> HIDE DEF FleetRows
      <3> QED BY <1>2 DEF FleetInv
    <2> QED BY <1>1, <2>1 DEF FleetInv
  <1>3. ASSUME NEW at \in {"asleep", "completed"}, fsReporter' = [NoReporter EXCEPT !.at = at]
        PROVE  FleetInv'
    <2>1. /\ fsReporter' \in [at : {"asleep", "building", "status", "completed", "failed"},
                              workers : [Services -> FleetRows], checked : Int]
          /\ fsReporter'.at = at /\ fsReporter'.checked = NoReporter.checked
          /\ fsReporter'.workers = NoReporter.workers
      <3> HIDE DEF FleetRows, NoReporter
      <3> QED BY <1>3, NoReporterTyped
    <2> QED BY <1>1, <1>c, <2>1, UnstartedTells
  <1>4. ASSUME fsReporter' = [at |-> "status", workers |-> fsWorker, checked |-> fsClock]
        PROVE  FleetInv'
    <2>1. /\ fsReporter' \in [at : {"asleep", "building", "status", "completed", "failed"},
                              workers : [Services -> FleetRows], checked : Int]
          /\ fsReporter'.checked = fsClock /\ fsReporter'.workers = fsWorker
      <3> HIDE DEF FleetRows
      <3> QED BY <1>4, <1>c DEF FleetInv
    <2>2. \A s \in Services : fsReporter'.workers[s].heartbeat = fsWorker'[s].heartbeat
      BY <1>u, <2>1
    <2> QED BY <1>c, <1>u, <2>1, <2>2 DEF FleetInv
  <1>5. NoReporter = [NoReporter EXCEPT !.at = "asleep"] BY DEF NoReporter
  <1> QED BY <1>2, <1>3, <1>4, <1>5 DEF _reporting_operation, start_report_refresh, BuildReports,
                                        send_monitoring_alerts, finish_report_refresh

LEMMA FleetStays ==
    ASSUME FleetInv, UNCHANGED <<fsClock, fsWorker, fsReporter>> PROVE FleetInv'
  BY DEF FleetInv

LEMMA FleetFrame ==
    ASSUME [Next]_vars PROVE fsNext \/ UNCHANGED fsVars
  BY DEF Next, vars, FleetFocus, fsNext

LEMMA FleetStep == ASSUME FleetInv, fsNext PROVE FleetInv'
  BY FleetTickKeeps, BeginCycleKeeps, EndCycleKeeps, WorkerStopsKeeps, ReportingKeeps, FleetStays
  DEF fsNext, FleetWeather

LEMMA FleetIsInductive == Spec => []FleetInv
  <1>1. Init => FleetInv BY FleetStarts DEF Init
  <1>2. FleetInv /\ [Next]_vars => FleetInv'
    BY FleetFrame, FleetStep, FleetStays DEF fsVars
  <1> QED BY <1>1, <1>2, PTL DEF Spec

\* An anomaly of a blocking type, a full volume or a database that is down makes the
\* status degraded, and every anomaly is an event.
LEMMA AnomalyIsReported ==
    ASSUME NEW rows, NEW s, s = build_internal_status(rows),
           NEW a \in FleetAnomalies(rows),
           ~fsUp \/ a.type \in Blocking \/ (a.type = "database_capacity" /\ a.what = "critical")
    PROVE  /\ s.status = "degraded"
           /\ \E event \in actionable_monitoring_events(
                 [status |-> s.status, anomalies |-> s.anomalies]) : event.type = a.type
  <1>1. s.status = "degraded" /\ s.anomalies = FleetAnomalies(rows)
    BY DEF build_internal_status
  <1>2. [severity |-> Severity(a), type |-> a.type] \in
          {[severity |-> Severity(b), type |-> b.type] : b \in FleetAnomalies(rows)}
    OBVIOUS
  <1> QED BY <1>1, <1>2 DEF actionable_monitoring_events

\* Each trouble is an anomaly of its type that makes the status degraded.
LEMMA TroubleIsAnAnomaly ==
    ASSUME FleetInv, fsReporter.at = "status", NEW trouble \in Troubles
    PROVE  \E a \in FleetAnomalies(fsReporter.workers) :
              /\ a.type = trouble
              /\ ~fsUp \/ a.type \in Blocking
                       \/ (a.type = "database_capacity" /\ a.what = "critical")
  <1> DEFINE rows == fsReporter.workers
  <1>1. CASE ~fsUp
    <2>1. trouble = "database_failure" BY <1>1 DEF Troubles
    <2>2. Anomaly("database_failure", "database") \in FleetAnomalies(rows)
      BY <1>1 DEF FleetAnomalies, _migration_state
    <2> QED BY <1>1, <2>1, <2>2 DEF Anomaly
  <1>2. CASE fsUp /\ trouble = "pending_migrations"
    <2>1. fsPending BY <1>2 DEF Troubles
    <2>2. Anomaly("pending_migrations", "database") \in FleetAnomalies(rows)
      BY <1>2, <2>1 DEF FleetAnomalies, _migration_state
    <2> QED BY <1>2, <2>2 DEF Anomaly, Blocking
  <1>3. CASE fsUp /\ trouble = "database_capacity"
    <2>1. fsVolume = "critical" BY <1>3 DEF Troubles
    <2>2. Anomaly("database_capacity", "critical") \in FleetAnomalies(rows)
      BY <1>3, <2>1 DEF FleetAnomalies
    <2> QED BY <1>3, <2>2 DEF Anomaly
  <1>4. ASSUME fsUp, NEW s \in Services, rows[s].heartbeat >= 0,
               NEW type \in Blocking, trouble = type,
               \/ type = "stale_worker_heartbeat" /\ stale(rows[s])
               \/ type = "consecutive_worker_failures" /\ rows[s].failures >= FailureLimit
        PROVE  \E a \in FleetAnomalies(rows) : a.type = trouble /\ a.type \in Blocking
    <2>1. Anomaly(type, s) \in WorkerAnomalies(rows) BY <1>4 DEF WorkerAnomalies
    <2>2. Anomaly(type, s) \in FleetAnomalies(rows) BY <1>4, <2>1 DEF FleetAnomalies
    <2> QED BY <1>4, <2>2 DEF Anomaly
  <1>5. CASE fsUp /\ trouble = "stale_worker_heartbeat"
    <2>1. PICK s \in Services : /\ fsWorker[s].heartbeat >= 0
                                /\ fsWorker[s].heartbeat + 1 < fsReporter.checked
      BY <1>5 DEF Troubles
    <2>2. fsWorker[s].heartbeat \in Int /\ fsReporter.checked \in Int
      BY DEF FleetInv, FleetRows
    <2>3. rows[s].heartbeat = fsWorker[s].heartbeat
      BY <2>1, <2>2 DEF FleetInv
    <2>4. stale(rows[s]) BY <2>1, <2>2, <2>3 DEF stale
    <2> QED BY <1>4, <1>5, <2>1, <2>3, <2>4 DEF Blocking
  <1>6. CASE fsUp /\ trouble = "consecutive_worker_failures"
    <2>1. PICK s \in Services : rows[s].failures >= FailureLimit
      BY <1>6 DEF Troubles
    <2>2. rows[s].failures \in Nat /\ RowTells(rows[s]) BY DEF FleetInv, FleetRows
    <2>3. rows[s].heartbeat >= 0 BY <2>1, <2>2, FleetAssumption DEF RowTells
    <2> QED BY <1>4, <1>6, <2>1, <2>3 DEF Blocking
  <1> QED BY <1>1, <1>2, <1>3, <1>5, <1>6 DEF Troubles

\* A step that changes the status to something builds it, in the reporter's cycle.
LEMMA StatusIsBuilt ==
    ASSUME fsNext, fsStatus'.status \notin {"none", fsStatus.status}
    PROVE  send_monitoring_alerts
  <1>1. NoStatusYet.status = "none" BY DEF NoStatusYet
  <1> QED BY <1>1 DEF fsNext, FleetTick, FleetWeather, _reporting_operation, start_report_refresh,
                      BuildReports, finish_report_refresh, BeginCycle, WorkerStops, EndCycle

\* build_internal_status and actionable_monitoring_events: for any services, cadences
\* and limits, and whatever broke, came back or wrote between the readings, a status
\* that is built while the database is down or lacks a migration, the volume is
\* critical, or a worker is dead and silent or fails again and again, is degraded and
\* has an event of that type.
THEOREM TroublesAreReported == Spec => TroubleIsReported
  <1>1. ASSUME FleetInv, [Next]_vars, fsStatus'.status \notin {"none", fsStatus.status},
               NEW trouble \in Troubles
        PROVE  /\ fsStatus'.status = "degraded"
               /\ \E event \in fsStatus'.events : event.type = trouble
    <2>1. fsNext BY <1>1, FleetFrame DEF fsVars
    <2>2. send_monitoring_alerts BY <1>1, <2>1, StatusIsBuilt
    <2>3. fsReporter.at = "status" BY <2>2 DEF send_monitoring_alerts
    <2>4. PICK s : s = build_internal_status(fsReporter.workers) OBVIOUS
    <2>5. /\ fsStatus'.status = s.status
          /\ fsStatus'.events = actionable_monitoring_events(s)
      BY <2>2, <2>4 DEF send_monitoring_alerts
    <2>6. s = [status |-> s.status, anomalies |-> s.anomalies]
      BY <2>4 DEF build_internal_status
    <2>7. PICK a \in FleetAnomalies(fsReporter.workers) :
              /\ a.type = trouble
              /\ ~fsUp \/ a.type \in Blocking
                       \/ (a.type = "database_capacity" /\ a.what = "critical")
      BY <1>1, <2>3, TroubleIsAnAnomaly
    <2> QED BY <2>4, <2>5, <2>6, <2>7, AnomalyIsReported
  <1>2. FleetInv /\ [Next]_vars =>
          [fsStatus'.status \notin {"none", fsStatus.status} =>
              \A trouble \in Troubles :
                 /\ fsStatus'.status = "degraded"
                 /\ \E event \in fsStatus'.events : event.type = trouble]_fsVars
    BY <1>1
  <1> QED BY <1>2, FleetIsInductive, PTL DEF Spec, TroubleIsReported

----------------------------------------------------------------------------
(* Sessions: the inductive invariant. *)

SessionRows == [expires : Int, revoked : BOOLEAN, csrf : Nat, disables : Nat]
SentRequests ==
    [at : {"sent", "known", "in", "leaving", "reply", "done"},
     kind : {"login", "page", "logout", "post"}, basic : BOOLEAN,
     session : Nat, csrf : Nat, header : Int,
     method : {"none", "local_unprotected", "session", "basic_fallback"},
     role : Roles \cup {""}, setSession : Int, setCsrf : Int]

\* The requests of a kind go through their own places; what they carry exists.
FlightFits(f, sessions, tokens) ==
    /\ f \in SentRequests
    /\ f.session <= sessions /\ f.csrf <= tokens
    /\ f.setSession \in -1..sessions /\ f.setCsrf \in -1..tokens
    /\ f.method = "session" => f.session # 0
    /\ f.at \in {"known", "leaving", "reply"} => f.kind # "post"
    /\ f.at = "known" => f.kind = "login"

SessionShape ==
    /\ ssClock \in 0..MaxSessionClock
    /\ ssEnv \in Deployments \cup {NoSettings}
    /\ ssUser \in [disabled : BOOLEAN, failures : Nat, locked : Int]
    /\ ssSessions \in Seq(SessionRows)
    /\ ssTokens \in 0..MaxTokens
    /\ \A i \in DOMAIN ssSessions : ssSessions[i].csrf \in 1..ssTokens
    /\ ssJar \in [session : 0..Len(ssSessions), csrf : 0..ssTokens, tab : Int]
    /\ ssFlight \in [Requests -> SentRequests \cup {NoRequest}]
    /\ ssDisabled \in Nat /\ ssOverlap \in BOOLEAN
    /\ \A r \in Requests : ssFlight[r] # NoRequest =>
          FlightFits(ssFlight[r], Len(ssSessions), ssTokens)

\* A request that sets cookies was sent with those the browser still has, and its answer
\* sets the request token of the session that the browser then has.
CookieRequest(r) == ssFlight[r] # NoRequest /\ SetsCookies(ssFlight[r].kind)
CookieAnswer(f, sessions) ==
    f.at = "reply" =>
        \/ f.setSession = -1 /\ f.setCsrf = -1
        \/ /\ f.setSession = 0 /\ f.csrf = 0 /\ f.session # 0
           /\ f.setCsrf = sessions[f.session].csrf
        \/ /\ f.setSession \in 1..Len(sessions)
           /\ f.setCsrf = sessions[f.setSession].csrf
FollowsJar(f, jar, sessions) ==
    f.session = jar.session /\ jar.csrf \in {0, f.csrf} /\ CookieAnswer(f, sessions)
TokenMatches(jar, sessions) ==
    jar.session # 0 /\ jar.csrf # 0 => sessions[jar.session].csrf = jar.csrf
JarFollows ==
    ~ssOverlap =>
        /\ \A r, o \in Requests : CookieRequest(r) /\ CookieRequest(o) => r = o
        /\ \A r \in Requests : CookieRequest(r) => FollowsJar(ssFlight[r], ssJar, ssSessions)
        /\ TokenMatches(ssJar, ssSessions)

\* The account counts the wrong guesses since the last right one, and is locked from the
\* one that reached the limit on.
StreakWrongs(i) == {k \in 1..i : Wrong(k) /\ Streak(k, i)}
GuessesCounted ==
    /\ \A i \in DOMAIN ssGuesses : ssGuesses[i].at <= ssClock
    /\ ssUser.failures = Cardinality(StreakWrongs(Len(ssGuesses)))
    /\ \A i \in DOMAIN ssGuesses :
          Wrong(i) /\ Streak(i, Len(ssGuesses))
          /\ Cardinality(StreakWrongs(i)) >= MaximumFailures =>
              ssUser.locked >= ssGuesses[i].at + LockFor
GuessRows == [at : Int, result : {"account_disabled", "account_locked", "invalid_credentials",
                                  "signed_in"}]
GuessesInv ==
    /\ ssGuesses \in Seq(GuessRows)
    /\ GuessesCounted
    /\ GuessesAreSpaced

SessionInv == SessionShape /\ JarFollows /\ GuessesInv /\ DisablingSignsOut

----------------------------------------------------------------------------
(* The guesses *)

LEMMA SessionClockIsInt == ASSUME SessionShape PROVE ssClock \in Nat /\ ssTokens \in Nat
  <1>1. MaxSessionClock \in Nat /\ MaxTokens \in Nat BY SessionAssumption
  <1>2. ssClock \in 0..MaxSessionClock /\ ssTokens \in 0..MaxTokens BY DEF SessionShape
  <1> HIDE DEF SessionShape
  <1> QED BY <1>1, <1>2

LEMMA WrongsAreFinite ==
    ASSUME NEW i \in Nat
    PROVE  IsFiniteSet(StreakWrongs(i)) /\ Cardinality(StreakWrongs(i)) \in Nat
  <1>1. StreakWrongs(i) \in SUBSET (1..i) BY DEF StreakWrongs
  <1>2. IsFiniteSet(1..i) BY FS_Interval
  <1> QED BY <1>1, <1>2, FS_Subset, FS_CardinalityType

LEMMA GuessesStay ==
    ASSUME GuessesInv, ssGuesses' = ssGuesses, ssUser'.failures = ssUser.failures,
           ssUser'.locked = ssUser.locked, ssClock \in Int, ssClock' \in Int, ssClock <= ssClock'
    PROVE  GuessesInv'
  <1>1. \A i, j : (Wrong(i)' <=> Wrong(i)) /\ (Streak(i, j)' <=> Streak(i, j))
    BY DEF Wrong, Streak
  <1>2. \A i : StreakWrongs(i)' = StreakWrongs(i)
    BY <1>1 DEF StreakWrongs
  <1>3. \A i \in DOMAIN ssGuesses : ssGuesses[i].at \in Int
    <2>1. \A i \in DOMAIN ssGuesses : ssGuesses[i] \in GuessRows BY DEF GuessesInv
    <2> QED BY <2>1 DEF GuessRows
  <1>4. GuessesCounted'
    BY <1>1, <1>2, <1>3 DEF GuessesInv, GuessesCounted
  <1>5. GuessesAreSpaced'
    <2>1. \A i : {k \in 1..i : Wrong(k) /\ Streak(k, i)} = StreakWrongs(i)
      BY DEF StreakWrongs
    <2>2. \A i : {k \in 1..i : Wrong(k)' /\ Streak(k, i)'} = StreakWrongs(i)
      BY <1>2 DEF StreakWrongs
    <2> QED BY DEF GuessesInv, GuessesAreSpaced, Wrong, Streak
  <1> QED BY <1>4, <1>5 DEF GuessesInv

LEMMA GuessAdded ==
    ASSUME SessionShape, GuessesInv,
           NEW result \in {"account_disabled", "account_locked", "invalid_credentials",
                           "signed_in"},
           ssGuesses' = Append(ssGuesses, [at |-> ssClock, result |-> result]),
           ssUser' = UserAfter(result), ssClock' = ssClock,
           result = "invalid_credentials" => ssUser.locked <= ssClock
    PROVE  GuessesInv'
  <1> DEFINE row == [at |-> ssClock, result |-> result]
  <1>1. ssGuesses \in Seq(GuessRows) BY DEF GuessesInv
  <1>2. PICK n \in Nat : n = Len(ssGuesses) BY <1>1
  <1>c. /\ ssClock \in Int /\ ssUser.locked \in Int /\ ssUser.failures \in Nat
        /\ LockFor \in Nat /\ MaximumFailures \in Nat \ {0}
    BY SessionClockIsInt, SessionAssumption DEF SessionShape
  <1>3. row \in GuessRows BY <1>c DEF GuessRows
  <1>4. ssGuesses' \in Seq(GuessRows) BY <1>1, <1>3
  <1>5. /\ DOMAIN ssGuesses = 1..n /\ DOMAIN ssGuesses' = 1..n + 1 /\ Len(ssGuesses') = n + 1
        /\ ssGuesses'[n + 1] = row /\ \A k \in 1..n : ssGuesses'[k] = ssGuesses[k]
    BY <1>1, <1>2, <1>3
  <1>6. \A k \in 1..n : ssGuesses[k].at \in Int /\ ssGuesses[k].at <= ssClock
    <2>1. \A k \in 1..n : ssGuesses[k] \in GuessRows BY <1>1, <1>2
    <2>2. \A k \in 1..n : ssGuesses[k].at <= ssClock
      BY <1>1, <1>2 DEF GuessesInv, GuessesCounted
    <2> QED BY <2>1, <2>2 DEF GuessRows
  <1>7. \A k \in 1..n : Wrong(k)' <=> Wrong(k)
    BY <1>5 DEF Wrong
  <1>8. Wrong(n + 1)' <=> result = "invalid_credentials"
    BY <1>5 DEF Wrong
  <1>9. \A i, j \in 1..n : Streak(i, j)' <=> Streak(i, j)
    BY <1>5 DEF Streak
  <1>10. \A i \in 1..n + 1 : Streak(i, n + 1)' <=> (Streak(i, n) /\ result # "signed_in")
    <2> TAKE i \in 1..n + 1
    <2>1. i..n + 1 = i..n \cup {n + 1} /\ \A k \in i..n : k \in 1..n OBVIOUS
    <2> QED BY <1>5, <2>1 DEF Streak
  <1>11. \A i \in 1..n : StreakWrongs(i)' = StreakWrongs(i)
    <2> TAKE i \in 1..n
    <2>1. \A k \in 1..i : k \in 1..n OBVIOUS
    <2> QED BY <1>7, <1>9, <2>1 DEF StreakWrongs
  <1>12. ssUser.failures = Cardinality(StreakWrongs(n))
    BY <1>2 DEF GuessesInv, GuessesCounted
  <1>13. ASSUME NEW i \in 1..n, Wrong(i), Streak(i, n),
                Cardinality(StreakWrongs(i)) >= MaximumFailures
         PROVE  ssUser.locked >= ssGuesses[i].at + LockFor
    BY <1>2, <1>5, <1>13 DEF GuessesInv, GuessesCounted
  <1>14. IsFiniteSet(StreakWrongs(n)) /\ Cardinality(StreakWrongs(n)) \in Nat
    BY WrongsAreFinite
  <1>15. \A k \in 1..n + 1 : k \in 1..n \/ k = n + 1 OBVIOUS
  <1>a. /\ ssUser'.failures = Cardinality(StreakWrongs(n + 1)')
        /\ \A i \in 1..n + 1 : Wrong(i)' /\ Streak(i, n + 1)'
               /\ Cardinality(StreakWrongs(i)') >= MaximumFailures =>
                     ssUser'.locked >= ssGuesses'[i].at + LockFor
    <2>1. CASE result = "signed_in"
      <3>1. \A i \in 1..n + 1 : ~Streak(i, n + 1)' BY <1>10, <2>1
      <3>2. StreakWrongs(n + 1)' = {} BY <3>1 DEF StreakWrongs
      <3>3. ssUser'.failures = 0 BY <2>1 DEF UserAfter, SessionShape
      <3> QED BY <3>1, <3>2, <3>3, FS_EmptySet
    <2>2. CASE result = "invalid_credentials"
      <3>1. StreakWrongs(n + 1)' = StreakWrongs(n) \cup {n + 1}
        <4>1. Streak(n + 1, n) BY DEF Streak
        <4>2. n + 1 \in 1..n + 1 OBVIOUS
        <4>3. \A k \in 1..n + 1 : (Wrong(k)' /\ Streak(k, n + 1)') <=>
                  (k = n + 1 \/ (k \in 1..n /\ Wrong(k) /\ Streak(k, n)))
          BY <1>7, <1>8, <1>10, <1>15, <2>2, <4>1, <4>2
        <4>4. \A k \in 1..n : k \in 1..n + 1 OBVIOUS
        <4> QED BY <4>2, <4>3, <4>4 DEF StreakWrongs
      <3>2. n + 1 \notin StreakWrongs(n) BY DEF StreakWrongs
      <3>3. Cardinality(StreakWrongs(n + 1)') = Cardinality(StreakWrongs(n)) + 1
        BY <1>14, <3>1, <3>2, FS_AddElement
      <3>4. /\ ssUser'.failures = ssUser.failures + 1
            /\ ssUser'.locked = IF ssUser.failures + 1 >= MaximumFailures
                                THEN ssClock + LockFor ELSE ssUser.locked
        BY <2>2 DEF UserAfter, SessionShape
      <3>5. \A i \in 1..n + 1 : ssGuesses'[i].at \in Int /\ ssGuesses'[i].at <= ssClock
        BY <1>5, <1>6, <1>15, <1>c
      <3>6. ASSUME NEW i \in 1..n + 1, Wrong(i)', Streak(i, n + 1)',
                   Cardinality(StreakWrongs(i)') >= MaximumFailures
            PROVE  ssUser'.locked >= ssGuesses'[i].at + LockFor
        <4>1. CASE ssUser.failures + 1 >= MaximumFailures
          <5>1. PICK at \in Int : at = ssGuesses'[i].at BY <3>5
          <5>2. at <= ssClock BY <3>5, <5>1
          <5>3. ssUser'.locked = ssClock + LockFor BY <3>4, <4>1
          <5>4. ssClock + LockFor >= at + LockFor BY <1>c, <5>2
          <5> QED BY <5>1, <5>3, <5>4
        <4>2. CASE ~(ssUser.failures + 1 >= MaximumFailures)
          <5>1. i # n + 1 BY <1>12, <1>c, <3>3, <3>6, <4>2
          <5>2. i \in 1..n BY <1>15, <5>1
          <5>3. ssUser.locked >= ssGuesses[i].at + LockFor
            BY <1>7, <1>10, <1>11, <1>13, <3>6, <5>2
          <5> QED BY <1>5, <3>4, <4>2, <5>2, <5>3
        <4> QED BY <4>1, <4>2
      <3> QED BY <1>12, <3>3, <3>4, <3>6
    <2>3. CASE result \notin {"signed_in", "invalid_credentials"}
      <3>1. StreakWrongs(n + 1)' = StreakWrongs(n)
        <4>1. \A k \in 1..n + 1 : (Wrong(k)' /\ Streak(k, n + 1)') <=>
                  (k \in 1..n /\ Wrong(k) /\ Streak(k, n))
          BY <1>7, <1>8, <1>10, <1>15, <2>3
        <4>2. \A k \in 1..n : k \in 1..n + 1 OBVIOUS
        <4> QED BY <4>1, <4>2 DEF StreakWrongs
      <3>2. ssUser' = ssUser BY <2>3 DEF UserAfter
      <3>3. ASSUME NEW i \in 1..n + 1, Wrong(i)', Streak(i, n + 1)',
                   Cardinality(StreakWrongs(i)') >= MaximumFailures
            PROVE  ssUser'.locked >= ssGuesses'[i].at + LockFor
        <4>1. i \in 1..n BY <1>8, <1>15, <2>3, <3>3
        <4> QED BY <1>5, <1>7, <1>10, <1>11, <1>13, <3>2, <3>3, <4>1
      <3> QED BY <1>12, <3>1, <3>2, <3>3
    <2> QED BY <2>1, <2>2, <2>3
  <1>b. GuessesCounted'
    <2>1. \A i \in 1..n + 1 : ssGuesses'[i].at <= ssClock
      BY <1>5, <1>6, <1>15, <1>c
    <2> QED BY <1>5, <1>a, <2>1 DEF GuessesCounted
  <1>d. GuessesAreSpaced'
    <2> SUFFICES ASSUME NEW i \in 1..n + 1, NEW j \in 1..n + 1, i < j, Wrong(i)', Wrong(j)',
                        Streak(i, j)', Cardinality(StreakWrongs(i)') >= MaximumFailures
                 PROVE  ssGuesses'[j].at >= ssGuesses'[i].at + LockFor
      BY <1>5 DEF GuessesAreSpaced, StreakWrongs
    <2>1. i \in 1..n OBVIOUS
    <2>2. Wrong(i) /\ Cardinality(StreakWrongs(i)) >= MaximumFailures BY <1>7, <1>11, <2>1
    <2>3. CASE j \in 1..n
      <3>1. Wrong(j) /\ Streak(i, j) BY <1>7, <1>9, <2>1, <2>3
      <3>2. ssGuesses[j].at >= ssGuesses[i].at + LockFor
        BY <1>5, <2>1, <2>2, <2>3, <3>1 DEF GuessesInv, GuessesAreSpaced, StreakWrongs
      <3> QED BY <1>5, <2>1, <2>3, <3>2
    <2>4. CASE j = n + 1
      <3>1. Streak(i, n) BY <1>10, <2>4
      <3>2. ssUser.locked >= ssGuesses[i].at + LockFor BY <1>13, <2>1, <2>2, <3>1
      <3>3. ssUser.locked <= ssClock BY <1>8, <2>4
      <3> QED BY <1>5, <1>6, <1>c, <2>1, <2>4, <3>2, <3>3
    <2> QED BY <1>15, <2>3, <2>4
  <1> QED BY <1>4, <1>b, <1>d DEF GuessesInv

----------------------------------------------------------------------------
(* The cookies *)

LEMMA SessionsTyped ==
    ASSUME SessionShape
    PROVE  /\ ssSessions \in Seq(SessionRows) /\ Len(ssSessions) \in Nat
           /\ DOMAIN ssSessions = 1..Len(ssSessions)
           /\ \A i \in 1..Len(ssSessions) : ssSessions[i] \in SessionRows
  BY DEF SessionShape

LEMMA FlightTyped ==
    ASSUME SessionShape, NEW r \in Requests, ssFlight[r] # NoRequest
    PROVE  ssFlight[r] \in SentRequests /\ FlightFits(ssFlight[r], Len(ssSessions), ssTokens)
  BY DEF SessionShape, FlightFits

\* NoRequest has no place that a request sent has.
LEMMA PlacesAreOfRequests ==
    ASSUME SessionShape, NEW r \in Requests, ssFlight[r].at # "none"
    PROVE  ssFlight[r] # NoRequest
  BY DEF NoRequest

LEMMA FitsGrow ==
    ASSUME NEW f, NEW sessions \in Nat, NEW tokens \in Nat, NEW more \in Nat, NEW minted \in Nat,
           sessions <= more, tokens <= minted, FlightFits(f, sessions, tokens)
    PROVE  FlightFits(f, more, minted)
  <1>1. f.session \in Nat /\ f.csrf \in Nat BY DEF FlightFits, SentRequests
  <1>2. /\ f.session <= sessions /\ f.csrf <= tokens
        /\ f.setSession \in -1..sessions /\ f.setCsrf \in -1..tokens
    BY DEF FlightFits
  <1>3. /\ f.session <= more /\ f.csrf <= minted
        /\ f.setSession \in -1..more /\ f.setCsrf \in -1..minted
    BY <1>1, <1>2
  <1> QED BY <1>3 DEF FlightFits

LEMMA AnswerStays ==
    ASSUME NEW f, NEW S \in Seq(SessionRows), NEW T \in Seq(SessionRows), Len(S) <= Len(T),
           \A i \in 1..Len(S) : T[i].csrf = S[i].csrf,
           f.session \in 0..Len(S), CookieAnswer(f, S)
    PROVE  CookieAnswer(f, T)
  <1>1. CASE f.at # "reply" BY <1>1 DEF CookieAnswer
  <1>2. CASE f.setSession = -1 /\ f.setCsrf = -1 BY <1>2 DEF CookieAnswer
  <1>3. CASE /\ f.setSession = 0 /\ f.csrf = 0 /\ f.session # 0
             /\ f.setCsrf = S[f.session].csrf
    <2>1. f.session \in 1..Len(S) BY <1>3
    <2> QED BY <1>3, <2>1 DEF CookieAnswer
  <1>4. CASE f.setSession \in 1..Len(S) /\ f.setCsrf = S[f.setSession].csrf
    <2>1. f.setSession \in 1..Len(T) BY <1>4
    <2> QED BY <1>4, <2>1 DEF CookieAnswer
  <1> QED BY <1>1, <1>2, <1>3, <1>4 DEF CookieAnswer

LEMMA TokenStays ==
    ASSUME NEW S \in Seq(SessionRows), NEW T \in Seq(SessionRows), NEW jar,
           \A i \in 1..Len(S) : T[i].csrf = S[i].csrf,
           jar.session \in 0..Len(S), TokenMatches(jar, S)
    PROVE  TokenMatches(jar, T)
  <1>1. jar.session # 0 => jar.session \in 1..Len(S) OBVIOUS
  <1> QED BY <1>1 DEF TokenMatches

\* What the sessions become: those there were keep their place.
SessionsGrow ==
    /\ ssSessions' \in Seq(SessionRows) /\ Len(ssSessions) <= Len(ssSessions')
    /\ ssTokens' \in 0..MaxTokens /\ ssTokens <= ssTokens'
    /\ \A i \in DOMAIN ssSessions' : ssSessions'[i].csrf \in 1..ssTokens'
    /\ ssUser' \in [disabled : BOOLEAN, failures : Nat, locked : Int]
TokensStay == \A i \in 1..Len(ssSessions) : ssSessions'[i].csrf = ssSessions[i].csrf

LEMMA SessionsStay ==
    ASSUME SessionShape, UNCHANGED <<ssSessions, ssTokens, ssUser>>
    PROVE  SessionsGrow /\ TokensStay
  <1>1. Len(ssSessions) \in Nat /\ ssTokens \in Nat BY SessionsTyped, SessionClockIsInt
  <1> QED BY <1>1 DEF SessionsGrow, TokensStay, SessionShape

\* A request takes a step of its own.
RequestMoves(r, f) ==
    /\ ssFlight[r] # NoRequest
    /\ ssFlight' = [ssFlight EXCEPT ![r] = f]
    /\ f = NoRequest \/ FlightFits(f, Len(ssSessions'), ssTokens')

LEMMA RequestShape ==
    ASSUME SessionShape, NEW r \in Requests, NEW f, RequestMoves(r, f), SessionsGrow,
           UNCHANGED <<ssClock, ssEnv, ssJar, ssDisabled, ssOverlap>>
    PROVE  SessionShape'
  <1>1. /\ Len(ssSessions) \in Nat /\ ssTokens \in Nat /\ Len(ssSessions') \in Nat
        /\ ssTokens' \in Nat
    BY SessionsTyped, SessionClockIsInt, SessionAssumption DEF SessionsGrow
  <1>2. Len(ssSessions) <= Len(ssSessions') /\ ssTokens <= ssTokens' BY DEF SessionsGrow
  <1>3. f \in SentRequests \cup {NoRequest} BY DEF RequestMoves, FlightFits
  <1>4. ssFlight' \in [Requests -> SentRequests \cup {NoRequest}]
    <2> HIDE DEF SentRequests, NoRequest
    <2> QED BY <1>3 DEF SessionShape, RequestMoves
  <1>5. ASSUME NEW o \in Requests, ssFlight'[o] # NoRequest
        PROVE  FlightFits(ssFlight'[o], Len(ssSessions'), ssTokens')
    <2>1. CASE o = r BY <1>5, <2>1 DEF RequestMoves, SessionShape
    <2>2. CASE o # r
      <3>1. ssFlight'[o] = ssFlight[o] BY <2>2 DEF RequestMoves, SessionShape
      <3>2. FlightFits(ssFlight[o], Len(ssSessions), ssTokens) BY <1>5, <3>1 DEF SessionShape
      <3> QED BY <1>1, <1>2, <3>1, <3>2, FitsGrow
    <2> QED BY <2>1, <2>2
  <1>6. ssJar' \in [session : 0..Len(ssSessions'), csrf : 0..ssTokens', tab : Int]
    <2>1. ssJar \in [session : 0..Len(ssSessions), csrf : 0..ssTokens, tab : Int]
      BY DEF SessionShape
    <2>2. 0..Len(ssSessions) \subseteq 0..Len(ssSessions') /\ 0..ssTokens \subseteq 0..ssTokens'
      BY <1>1, <1>2
    <2>3. ssJar \in [session : 0..Len(ssSessions'), csrf : 0..ssTokens', tab : Int]
      BY <2>1, <2>2
    <2> QED BY <2>3
  <1> QED BY <1>4, <1>5, <1>6 DEF SessionShape, SessionsGrow

\* ... and the cookies it is about are still those of the browser.
LEMMA RequestFollows ==
    ASSUME SessionShape, JarFollows, NEW r \in Requests, NEW f, RequestMoves(r, f),
           ssJar' = ssJar, ssOverlap' = ssOverlap,
           SessionsGrow, TokensStay \/ CookieRequest(r),
           f # NoRequest => f.kind = ssFlight[r].kind,
           ~ssOverlap /\ CookieRequest(r) => /\ f # NoRequest => FollowsJar(f, ssJar, ssSessions')
                                             /\ TokenMatches(ssJar, ssSessions')
    PROVE  JarFollows'
  <1> SUFFICES ASSUME ~ssOverlap PROVE JarFollows'
    BY DEF JarFollows
  <1>1. \A o \in Requests \ {r} : ssFlight'[o] = ssFlight[o]
    BY DEF RequestMoves, SessionShape
  <1>2. ssFlight'[r] = f BY DEF RequestMoves, SessionShape
  <1>3. \A o \in Requests : CookieRequest(o)' => CookieRequest(o)
    BY <1>1, <1>2 DEF CookieRequest, RequestMoves
  <1>4. ssJar.session \in 0..Len(ssSessions) BY DEF SessionShape
  <1>t. ssSessions \in Seq(SessionRows) /\ ssSessions' \in Seq(SessionRows)
        /\ Len(ssSessions) <= Len(ssSessions')
    BY DEF SessionShape, SessionsGrow
  <1>5. TokenMatches(ssJar, ssSessions')
    <2>1. CASE CookieRequest(r) BY <2>1
    <2>2. CASE TokensStay
      <3>1. TokenMatches(ssJar, ssSessions) BY DEF JarFollows
      <3>2. \A i \in 1..Len(ssSessions) : ssSessions'[i].csrf = ssSessions[i].csrf
        BY <2>2 DEF TokensStay
      <3> QED BY <1>4, <1>t, <3>1, <3>2, TokenStays
    <2> QED BY <2>1, <2>2
  <1>6. ASSUME NEW o \in Requests, CookieRequest(o)'
        PROVE  FollowsJar(ssFlight'[o], ssJar, ssSessions')
    <2>1. CookieRequest(o) BY <1>3, <1>6
    <2>2. CASE o = r BY <1>2, <1>6, <2>1, <2>2 DEF CookieRequest
    <2>3. CASE o # r
      <3>1. ~CookieRequest(r) BY <2>1, <2>3 DEF JarFollows
      <3>2. \A i \in 1..Len(ssSessions) : ssSessions'[i].csrf = ssSessions[i].csrf
        BY <3>1 DEF TokensStay
      <3>3. FollowsJar(ssFlight[o], ssJar, ssSessions) BY <2>1 DEF JarFollows
      <3>4. ssFlight[o].session \in 0..Len(ssSessions)
        BY <1>4, <3>3 DEF FollowsJar
      <3>5. CookieAnswer(ssFlight[o], ssSessions')
        BY <1>t, <3>2, <3>3, <3>4, AnswerStays DEF FollowsJar
      <3> QED BY <1>1, <2>3, <3>3, <3>5 DEF FollowsJar
    <2> QED BY <2>2, <2>3
  <1> QED BY <1>3, <1>5, <1>6 DEF JarFollows

LEMMA DisablesStay ==
    ASSUME SessionShape, DisablingSignsOut, ssDisabled' = ssDisabled,
           DOMAIN ssSessions' = DOMAIN ssSessions,
           \A i \in DOMAIN ssSessions : /\ ssSessions'[i].disables = ssSessions[i].disables
                                        /\ ssSessions[i].revoked => ssSessions'[i].revoked
    PROVE  DisablingSignsOut'
  BY DEF DisablingSignsOut

\* A step that changes nothing but its request, and does not answer with cookies.
LEMMA FlightStep ==
    ASSUME SessionInv, NEW r \in Requests, NEW f, ssFlight[r] # NoRequest,
           ssFlight' = [ssFlight EXCEPT ![r] = f],
           f = NoRequest \/ (/\ FlightFits(f, Len(ssSessions), ssTokens) /\ f.at # "reply"
                             /\ f.kind = ssFlight[r].kind /\ f.session = ssFlight[r].session
                             /\ f.csrf = ssFlight[r].csrf),
           UNCHANGED <<ssClock, ssEnv, ssUser, ssSessions, ssTokens, ssJar, ssGuesses,
                       ssDisabled, ssOverlap>>
    PROVE  SessionInv'
  <1>1. SessionShape /\ JarFollows /\ GuessesInv /\ DisablingSignsOut BY DEF SessionInv
  <1>2. RequestMoves(r, f) BY DEF RequestMoves
  <1>3. SessionsGrow /\ TokensStay BY <1>1, SessionsStay
  <1>4. SessionShape' BY <1>1, <1>2, <1>3, RequestShape
  <1>5. ASSUME ~ssOverlap, CookieRequest(r)
        PROVE  /\ f # NoRequest => FollowsJar(f, ssJar, ssSessions')
               /\ TokenMatches(ssJar, ssSessions')
    <2>1. FollowsJar(ssFlight[r], ssJar, ssSessions) /\ TokenMatches(ssJar, ssSessions)
      BY <1>1, <1>5 DEF JarFollows
    <2> QED BY <2>1 DEF FollowsJar, CookieAnswer
  <1>6. JarFollows' BY <1>1, <1>2, <1>3, <1>5, RequestFollows
  <1>7. ssClock \in Int BY <1>1, SessionClockIsInt
  <1>8. GuessesInv' BY <1>1, <1>7, GuessesStay
  <1>9. DisablingSignsOut' BY <1>1, DisablesStay
  <1> QED BY <1>4, <1>6, <1>8, <1>9 DEF SessionInv

LEMMA RequestEnds ==
    ASSUME SessionInv, NEW r \in Requests, ssFlight[r] # NoRequest, Answered(r),
           UNCHANGED <<ssClock, ssEnv, ssUser, ssSessions, ssTokens, ssJar, ssGuesses,
                       ssDisabled, ssOverlap>>
    PROVE  SessionInv'
  BY FlightStep DEF Answered

LEMMA RequestGoesTo ==
    ASSUME SessionInv, NEW r \in Requests, ssFlight[r] # NoRequest,
           NEW place \in {"in", "leaving", "done"},
           NEW method \in {"none", "local_unprotected", "session", "basic_fallback"},
           NEW role \in Roles \cup {""},
           method = "session" => ssFlight[r].session # 0,
           place = "leaving" => ssFlight[r].kind # "post",
           ssFlight' = [ssFlight EXCEPT ![r] = [ssFlight[r] EXCEPT !.at = place, !.method = method,
                                                                   !.role = role]],
           UNCHANGED <<ssClock, ssEnv, ssUser, ssSessions, ssTokens, ssJar, ssGuesses,
                       ssDisabled, ssOverlap>>
    PROVE  SessionInv'
  <1>1. PICK f : f = [ssFlight[r] EXCEPT !.at = place, !.method = method, !.role = role] OBVIOUS
  <1>2. PICK g \in SentRequests : g = ssFlight[r] /\ FlightFits(g, Len(ssSessions), ssTokens)
    BY FlightTyped DEF SessionInv
  <1>3. f \in SentRequests BY <1>1, <1>2, ZenonT(40) DEF SentRequests
  <1>4. /\ f.at = place /\ f.kind = g.kind /\ f.session = g.session /\ f.csrf = g.csrf
        /\ f.method = method /\ f.setSession = g.setSession /\ f.setCsrf = g.setCsrf
    BY <1>1, <1>2 DEF SentRequests
  <1>5. FlightFits(f, Len(ssSessions), ssTokens) BY <1>2, <1>3, <1>4 DEF FlightFits
  <1> QED BY <1>1, <1>2, <1>4, <1>5, FlightStep

LEMMA LoseReplyKeeps ==
    ASSUME SessionInv, NEW r \in Requests, LoseReply(r) PROVE SessionInv'
  <1>1. ssFlight[r] # NoRequest BY DEF LoseReply, NoRequest
  <1> QED BY <1>1, RequestEnds DEF LoseReply, Answered

LEMMA RolesOfRequests ==
    ASSUME SessionShape, NEW basic \in BOOLEAN, NEW session \in Nat, NEW store
    PROVE  LET who == authenticate_dashboard_request(basic, session, store)
           IN  /\ who.role \in Roles \cup {""}
               /\ who.method \in {"none", "local_unprotected", "session", "basic_fallback"}
               /\ who.method = "session" => session # 0
  <1>1. basic_auth_role(ssEnv) \in Roles BY DEF basic_auth_role, Roles
  <1>2. UserRole \in Roles BY SessionAssumption
  <1> QED BY <1>1, <1>2 DEF authenticate_dashboard_request, resolve_session, NobodyElse, Roles

LEMMA AuthorizeKeeps ==
    ASSUME SessionInv, NEW r \in Requests, NEW store, authorize_request(r, store)
    PROVE  SessionInv'
  <1>1. ssFlight[r] # NoRequest BY DEF authorize_request, NoRequest
  <1>u. UNCHANGED <<ssClock, ssEnv, ssUser, ssSessions, ssTokens, ssJar, ssGuesses,
                    ssDisabled, ssOverlap>>
    BY DEF authorize_request
  <1>2. CASE Answered(r) BY <1>1, <1>2, <1>u, RequestEnds
  <1>3. PICK who : who = authenticate_dashboard_request(ssFlight[r].basic, ssFlight[r].session, store)
    OBVIOUS
  <1>4. /\ who.role \in Roles \cup {""}
        /\ who.method \in {"none", "local_unprotected", "session", "basic_fallback"}
        /\ who.method = "session" => ssFlight[r].session # 0
    <2>1. ssFlight[r].basic \in BOOLEAN /\ ssFlight[r].session \in Nat
      BY <1>1, FlightTyped DEF SessionInv, SentRequests
    <2> QED BY <1>3, <2>1, RolesOfRequests DEF SessionInv
  <1>5. CASE ssFlight' = [ssFlight EXCEPT ![r].at = "in", ![r].method = who.method,
                                          ![r].role = who.role]
    <2>1. ssFlight' = [ssFlight EXCEPT ![r] = [ssFlight[r] EXCEPT !.at = "in",
                                              !.method = who.method, !.role = who.role]]
      BY <1>5 DEF SessionInv, SessionShape
    <2> QED BY <1>1, <1>4, <1>u, <2>1, RequestGoesTo
  <1> QED BY <1>2, <1>3, <1>5 DEF authorize_request

\* Only the place changes.
LEMMA RequestProceeds ==
    ASSUME SessionInv, NEW r \in Requests, ssFlight[r] # NoRequest,
           NEW place \in {"leaving", "done"}, place = "leaving" => ssFlight[r].kind # "post",
           ssFlight' = [ssFlight EXCEPT ![r].at = place],
           UNCHANGED <<ssClock, ssEnv, ssUser, ssSessions, ssTokens, ssJar, ssGuesses,
                       ssDisabled, ssOverlap>>
    PROVE  SessionInv'
  <1>1. PICK g \in SentRequests : g = ssFlight[r] /\ FlightFits(g, Len(ssSessions), ssTokens)
    BY FlightTyped DEF SessionInv
  <1>2. [g EXCEPT !.at = place] = [g EXCEPT !.at = place, !.method = g.method, !.role = g.role]
    BY DEF SentRequests
  <1>3. ssFlight' = [ssFlight EXCEPT ![r] = [ssFlight[r] EXCEPT !.at = place,
                                               !.method = g.method, !.role = g.role]]
    BY <1>1, <1>2
  <1>4. /\ g.method \in {"none", "local_unprotected", "session", "basic_fallback"}
        /\ g.role \in Roles \cup {""} /\ (g.method = "session" => g.session # 0)
    BY <1>1 DEF SentRequests, FlightFits
  <1> QED BY <1>1, <1>3, <1>4, RequestGoesTo, ZenonT(40)

LEMMA LogoutKeeps ==
    ASSUME SessionInv, NEW r \in Requests, NEW store, handle_logout(r, store)
    PROVE  SessionInv'
  <1>1. ssFlight[r] # NoRequest BY DEF handle_logout, NoRequest
  <1> QED BY <1>1, RequestEnds, RequestProceeds DEF handle_logout

LEMMA PostKeeps ==
    ASSUME SessionInv, NEW r \in Requests, NEW store, do_POST(r, store)
    PROVE  SessionInv'
  <1>1. ssFlight[r] # NoRequest BY DEF do_POST, NoRequest
  <1> QED BY <1>1, RequestEnds, RequestProceeds DEF do_POST

LEMMA AttemptTyped ==
    ASSUME SessionShape, NEW right \in BOOLEAN, NEW result, result = AttemptResult(right)
    PROVE  /\ result \in {"account_disabled", "account_locked", "invalid_credentials",
                          "signed_in"}
           /\ result = "invalid_credentials" => ssUser.locked <= ssClock
           /\ UserAfter(result) \in [disabled : BOOLEAN, failures : Nat, locked : Int]
  <1>1. ssClock \in Nat /\ LockFor \in Nat BY SessionClockIsInt, SessionAssumption
  <1>2. PICK u \in [disabled : BOOLEAN, failures : Nat, locked : Int] : u = ssUser
    BY DEF SessionShape
  <1>3. u.locked \in Int /\ u.failures \in Nat OBVIOUS
  <1>4. result = "invalid_credentials" => ssUser.locked <= ssClock
    BY <1>1, <1>2, <1>3 DEF AttemptResult
  <1>5. UserAfter(result) \in [disabled : BOOLEAN, failures : Nat, locked : Int]
    <2>1. CASE result = "invalid_credentials"
      <3>1. PICK locked \in Int : UserAfter(result) =
                [disabled |-> u.disabled, failures |-> u.failures + 1, locked |-> locked]
        <4>1. UserAfter(result) = [ssUser EXCEPT !.failures = @ + 1,
                                    !.locked = IF ssUser.failures + 1 >= MaximumFailures
                                               THEN ssClock + LockFor ELSE @]
          BY <2>1 DEF UserAfter
        <4>2. ssClock + LockFor \in Int BY <1>1
        <4>3. CASE ssUser.failures + 1 >= MaximumFailures
          <5>1. UserAfter(result) = [disabled |-> u.disabled, failures |-> u.failures + 1,
                                     locked |-> ssClock + LockFor]
            BY <1>2, <4>1, <4>3
          <5> QED BY <4>2, <5>1
        <4>4. CASE ~(ssUser.failures + 1 >= MaximumFailures)
          <5>1. UserAfter(result) = [disabled |-> u.disabled, failures |-> u.failures + 1,
                                     locked |-> u.locked]
            BY <1>2, <4>1, <4>4
          <5> QED BY <1>3, <5>1
        <4> QED BY <4>3, <4>4
      <3> QED BY <1>2, <1>3, <3>1
    <2>2. CASE result = "signed_in"
      <3>1. UserAfter(result) = [disabled |-> u.disabled, failures |-> 0, locked |-> 0]
        BY <1>2, <2>2 DEF UserAfter
      <3> QED BY <3>1
    <2>3. CASE result \notin {"invalid_credentials", "signed_in"}
      BY <1>2, <2>3 DEF UserAfter
    <2> QED BY <2>1, <2>2, <2>3
  <1>6. result \in {"account_disabled", "account_locked", "invalid_credentials", "signed_in"}
    BY DEF AttemptResult
  <1> QED BY <1>4, <1>5, <1>6

LEMMA AuthenticateKeeps ==
    ASSUME SessionInv, NEW r \in Requests, NEW right \in BOOLEAN, authenticate_password(r, right)
    PROVE  SessionInv'
  <1>1. SessionShape /\ JarFollows /\ GuessesInv /\ DisablingSignsOut BY DEF SessionInv
  <1>2. ssFlight[r] # NoRequest BY DEF authenticate_password, NoRequest
  <1>u. /\ UNCHANGED <<ssClock, ssEnv, ssSessions, ssTokens, ssJar, ssDisabled, ssOverlap>>
        /\ ssFlight[r].kind = "login"
    BY DEF authenticate_password
  <1>3. PICK result : result = AttemptResult(right) OBVIOUS
  <1>4. /\ ssUser' = UserAfter(result)
        /\ ssGuesses' = Append(ssGuesses, [at |-> ssClock, result |-> result])
        /\ ssFlight' = [ssFlight EXCEPT ![r].at = "known"] \/ Answered(r)
    BY <1>3 DEF authenticate_password
  <1>5. /\ result \in {"account_disabled", "account_locked", "invalid_credentials", "signed_in"}
        /\ result = "invalid_credentials" => ssUser.locked <= ssClock
        /\ UserAfter(result) \in [disabled : BOOLEAN, failures : Nat, locked : Int]
    BY <1>1, <1>3, AttemptTyped
  <1>6. GuessesInv' BY <1>1, <1>4, <1>5, <1>u, GuessAdded
  <1>7. SessionsGrow /\ TokensStay
    <2>1. Len(ssSessions) \in Nat /\ ssTokens \in Nat BY <1>1, SessionsTyped, SessionClockIsInt
    <2> QED BY <1>1, <1>4, <1>5, <1>u, <2>1 DEF SessionsGrow, TokensStay, SessionShape
  <1>8. PICK f : /\ ssFlight' = [ssFlight EXCEPT ![r] = f]
                 /\ f = NoRequest \/ f = [ssFlight[r] EXCEPT !.at = "known"]
    BY <1>4 DEF Answered
  <1>9. PICK g \in SentRequests : g = ssFlight[r] /\ FlightFits(g, Len(ssSessions), ssTokens)
    BY <1>1, <1>2, FlightTyped
  <1>10. f # NoRequest => /\ f \in SentRequests /\ f.at = "known" /\ f.kind = g.kind
                          /\ f.session = g.session /\ f.csrf = g.csrf /\ f.method = g.method
                          /\ f.setSession = g.setSession /\ f.setCsrf = g.setCsrf
    <2> HAVE f # NoRequest
    <2>1. f = [g EXCEPT !.at = "known"] BY <1>8, <1>9
    <2>2. f \in SentRequests BY <2>1 DEF SentRequests
    <2> QED BY <2>1, <2>2 DEF SentRequests
  <1>11. f # NoRequest => FlightFits(f, Len(ssSessions'), ssTokens')
    BY <1>9, <1>10, <1>u DEF FlightFits
  <1>12. RequestMoves(r, f) BY <1>2, <1>8, <1>11 DEF RequestMoves
  <1>13. SessionShape' BY <1>1, <1>7, <1>12, <1>u, RequestShape
  <1>14. ASSUME ~ssOverlap, CookieRequest(r)
         PROVE  /\ f # NoRequest => FollowsJar(f, ssJar, ssSessions')
                /\ TokenMatches(ssJar, ssSessions')
    <2>1. FollowsJar(ssFlight[r], ssJar, ssSessions) /\ TokenMatches(ssJar, ssSessions)
      BY <1>1, <1>14 DEF JarFollows
    <2> QED BY <1>9, <1>10, <1>u, <2>1 DEF FollowsJar, CookieAnswer
  <1>15. f # NoRequest => f.kind = ssFlight[r].kind BY <1>9, <1>10
  <1>16. JarFollows' BY <1>1, <1>7, <1>12, <1>14, <1>15, <1>u, RequestFollows
  <1>17. DisablingSignsOut' BY <1>1, <1>u, DisablesStay
  <1> QED BY <1>6, <1>13, <1>16, <1>17 DEF SessionInv

\* An answer that sets cookies: the request is the browser's own.
LEMMA AnswerSets ==
    ASSUME SessionInv, NEW r \in Requests, ssFlight[r] # NoRequest,
           ssFlight[r].kind \in {"login", "page", "logout"},
           NEW session \in Int, NEW csrf \in Int, Replies(r, session, csrf),
           session \in -1..Len(ssSessions'), csrf \in -1..ssTokens',
           SessionsGrow, UNCHANGED <<ssClock, ssEnv, ssUser, ssJar, ssGuesses, ssDisabled, ssOverlap>>,
           ~ssOverlap =>
              /\ TokenMatches(ssJar, ssSessions')
              /\ \/ session = -1 /\ csrf = -1
                 \/ /\ session = 0 /\ ssFlight[r].csrf = 0 /\ ssFlight[r].session # 0
                    /\ csrf = ssSessions'[ssFlight[r].session].csrf
                 \/ /\ session \in 1..Len(ssSessions')
                    /\ csrf = ssSessions'[session].csrf,
           DisablingSignsOut'
    PROVE  SessionInv'
  <1>1. SessionShape /\ JarFollows /\ GuessesInv BY DEF SessionInv
  <1>2. PICK g \in SentRequests : g = ssFlight[r] /\ FlightFits(g, Len(ssSessions), ssTokens)
    BY <1>1, FlightTyped
  <1>3. PICK f : f = [g EXCEPT !.at = "reply", !.setSession = session, !.setCsrf = csrf] OBVIOUS
  <1>4. f \in SentRequests BY <1>3 DEF SentRequests
  <1>5. /\ f.at = "reply" /\ f.kind = g.kind /\ f.session = g.session /\ f.csrf = g.csrf
        /\ f.method = g.method /\ f.setSession = session /\ f.setCsrf = csrf
    BY <1>3 DEF SentRequests
  <1>6. ssFlight' = [ssFlight EXCEPT ![r] = f]
    BY <1>1, <1>2, <1>3 DEF Replies, SessionShape
  <1>7. FlightFits(f, Len(ssSessions'), ssTokens')
    <2>1. /\ Len(ssSessions) \in Nat /\ ssTokens \in Nat /\ Len(ssSessions') \in Nat
          /\ ssTokens' \in Nat
      BY <1>1, SessionsTyped, SessionClockIsInt, SessionAssumption DEF SessionsGrow
    <2>2. Len(ssSessions) <= Len(ssSessions') /\ ssTokens <= ssTokens' BY DEF SessionsGrow
    <2>3. FlightFits(g, Len(ssSessions'), ssTokens') BY <1>2, <2>1, <2>2, FitsGrow
    <2> QED BY <1>2, <1>4, <1>5, <2>3 DEF FlightFits
  <1>8. RequestMoves(r, f) BY <1>6, <1>7 DEF RequestMoves
  <1>9. SessionShape' BY <1>1, <1>8, RequestShape
  <1>10. CookieRequest(r) BY DEF CookieRequest, SetsCookies
  <1>11. ~ssOverlap => FollowsJar(f, ssJar, ssSessions') /\ TokenMatches(ssJar, ssSessions')
    <2> HAVE ~ssOverlap
    <2>1. FollowsJar(g, ssJar, ssSessions) BY <1>1, <1>2, <1>10 DEF JarFollows
    <2> QED BY <1>2, <1>5, <2>1 DEF FollowsJar, CookieAnswer
  <1>12. f.kind = ssFlight[r].kind BY <1>2, <1>5
  <1>13. JarFollows' BY <1>1, <1>8, <1>10, <1>11, <1>12, RequestFollows
  <1>14. ssClock \in Int BY <1>1, SessionClockIsInt
  <1>15. GuessesInv' BY <1>1, <1>14, GuessesStay
  <1> QED BY <1>9, <1>13, <1>15 DEF SessionInv

LEMMA CreateSessionKeeps ==
    ASSUME SessionInv, NEW r \in Requests, create_session(r) PROVE SessionInv'
  <1>1. SessionShape /\ JarFollows /\ DisablingSignsOut BY DEF SessionInv
  <1>2. ssFlight[r] # NoRequest BY DEF create_session, NoRequest
  <1>3. ssFlight[r].kind = "login"
    BY <1>1, <1>2, FlightTyped DEF create_session, FlightFits
  <1>u. UNCHANGED <<ssClock, ssEnv, ssUser, ssJar, ssGuesses, ssDisabled, ssOverlap>>
    BY DEF create_session
  <1>4. /\ Len(ssSessions) \in Nat /\ ssTokens \in Nat /\ ssTokens < MaxTokens
        /\ ssTokens' = ssTokens + 1 /\ MaxTokens \in Nat
        /\ ssClock + SessionFor \in Int /\ ssDisabled \in Nat
    BY <1>1, SessionsTyped, SessionClockIsInt, SessionAssumption DEF create_session, SessionShape
  <1>5. PICK row : row = [expires |-> ssClock + SessionFor, revoked |-> FALSE,
                          csrf |-> ssTokens', disables |-> ssDisabled]
    OBVIOUS
  <1>6. row \in SessionRows /\ row.csrf = ssTokens + 1 /\ row.disables = ssDisabled
    BY <1>4, <1>5 DEF SessionRows
  <1>7. ssSessions' = Append(ssSessions, row) BY <1>5 DEF create_session
  <1>8. PICK n \in Nat : n = Len(ssSessions) BY <1>4
  <1>9. /\ ssSessions' \in Seq(SessionRows) /\ Len(ssSessions') = n + 1
        /\ DOMAIN ssSessions' = 1..n + 1 /\ ssSessions'[n + 1] = row
        /\ \A i \in 1..n : ssSessions'[i] = ssSessions[i]
    BY <1>1, <1>6, <1>7, <1>8, SessionsTyped
  <1>10. \A i \in 1..n + 1 : i \in 1..n \/ i = n + 1 OBVIOUS
  <1>11. SessionsGrow /\ TokensStay
    <2>1. \A i \in 1..n : ssSessions'[i].csrf \in 1..ssTokens
      BY <1>1, <1>8, <1>9, SessionsTyped DEF SessionShape
    <2>2. 1..ssTokens \subseteq 1..ssTokens' /\ ssTokens + 1 \in 1..ssTokens'
          /\ ssTokens' \in 0..MaxTokens /\ ssTokens <= ssTokens'
      BY <1>4
    <2>3. \A i \in DOMAIN ssSessions' : ssSessions'[i].csrf \in 1..ssTokens'
      BY <1>6, <1>9, <1>10, <2>1, <2>2
    <2>4. ssUser' \in [disabled : BOOLEAN, failures : Nat, locked : Int]
      BY <1>1, <1>u DEF SessionShape
    <2>5. Len(ssSessions) <= Len(ssSessions') BY <1>8, <1>9
    <2> QED BY <1>8, <1>9, <2>2, <2>3, <2>4, <2>5 DEF SessionsGrow, TokensStay
  <1>12. DisablingSignsOut'
    BY <1>1, <1>6, <1>8, <1>9, <1>10, <1>u, SessionsTyped DEF DisablingSignsOut
  <1>13. ~ssOverlap => TokenMatches(ssJar, ssSessions')
    <2> HAVE ~ssOverlap
    <2>1. TokenMatches(ssJar, ssSessions) BY <1>1 DEF JarFollows
    <2>2. ssJar.session \in 0..Len(ssSessions) BY <1>1 DEF SessionShape
    <2>3. \A i \in 1..Len(ssSessions) : ssSessions'[i].csrf = ssSessions[i].csrf
      BY <1>8, <1>9
    <2> QED BY <1>1, <1>9, <2>1, <2>2, <2>3, SessionsTyped, TokenStays
  <1>14. PICK session \in 1..Len(ssSessions'), csrf \in 1..ssTokens' :
            /\ session = Len(ssSessions') /\ csrf = ssTokens'
            /\ csrf = ssSessions'[session].csrf
    BY <1>4, <1>6, <1>9
  <1>15. Replies(r, session, csrf) BY <1>14 DEF create_session
  <1>16. /\ session \in Int /\ csrf \in Int
         /\ session \in -1..Len(ssSessions') /\ csrf \in -1..ssTokens'
    BY <1>4, <1>9, <1>14
  <1> QED BY <1>2, <1>3, <1>11, <1>12, <1>13, <1>14, <1>15, <1>16, <1>u, AnswerSets

LEMMA ReissueKeeps ==
    ASSUME SessionInv, NEW r \in Requests, NEW store, reissued_csrf_cookie(r, store)
    PROVE  SessionInv'
  <1>1. SessionShape /\ JarFollows /\ DisablingSignsOut BY DEF SessionInv
  <1>2. ssFlight[r] # NoRequest /\ ssFlight[r].kind = "page"
    BY DEF reissued_csrf_cookie, NoRequest
  <1>u. UNCHANGED <<ssClock, ssEnv, ssUser, ssJar, ssGuesses, ssDisabled, ssOverlap>>
    BY DEF reissued_csrf_cookie
  <1>3. CASE Answered(r) /\ UNCHANGED <<ssTokens, ssSessions>>
    BY <1>2, <1>3, <1>u, RequestEnds
  <1>4. CASE /\ ssFlight[r].method = "session" /\ ssFlight[r].csrf = 0
             /\ rotate_csrf(ssFlight[r].session) /\ Replies(r, 0, ssTokens')
    <2>1. PICK n \in Nat : n = Len(ssSessions) BY <1>1, SessionsTyped
    <2>2. PICK s \in 1..n : s = ssFlight[r].session
      <3>1. /\ ssFlight[r].session \in Nat /\ ssFlight[r].session <= n
            /\ ssFlight[r].session # 0
        BY <1>1, <1>2, <1>4, <2>1, FlightTyped DEF FlightFits, SentRequests
      <3> QED BY <3>1
    <2>3. /\ ssTokens \in Nat /\ ssTokens < MaxTokens /\ MaxTokens \in Nat
          /\ ssTokens' = ssTokens + 1
      BY <1>1, <1>4, SessionClockIsInt, SessionAssumption DEF rotate_csrf
    <2>4. PICK row \in SessionRows : row = ssSessions[s] BY <1>1, <2>1, SessionsTyped
    <2>5. PICK new : new = [row EXCEPT !.csrf = ssTokens'] OBVIOUS
    <2>6. /\ new \in SessionRows /\ new.csrf = ssTokens' /\ new.disables = row.disables
          /\ new.revoked = row.revoked
      BY <2>3, <2>5 DEF SessionRows
    <2>7. ssSessions' = [ssSessions EXCEPT ![s] = new]
      BY <1>4, <2>2, <2>4, <2>5 DEF rotate_csrf
    <2>8. /\ ssSessions' \in Seq(SessionRows) /\ Len(ssSessions') = n
          /\ DOMAIN ssSessions' = 1..n /\ ssSessions'[s] = new
          /\ \A i \in 1..n \ {s} : ssSessions'[i] = ssSessions[i]
      BY <1>1, <2>1, <2>6, <2>7, SessionsTyped
    <2>9. SessionsGrow
      <3>1. \A i \in 1..n : ssSessions[i].csrf \in 1..ssTokens
        BY <1>1, <2>1, SessionsTyped DEF SessionShape
      <3>2. 1..ssTokens \subseteq 1..ssTokens' /\ ssTokens' \in 1..ssTokens'
            /\ ssTokens' \in 0..MaxTokens /\ ssTokens <= ssTokens'
        BY <2>3
      <3>3. \A i \in DOMAIN ssSessions' : ssSessions'[i].csrf \in 1..ssTokens'
        BY <2>6, <2>8, <3>1, <3>2
      <3>4. ssUser' \in [disabled : BOOLEAN, failures : Nat, locked : Int]
        BY <1>1, <1>u DEF SessionShape
      <3> QED BY <2>1, <2>8, <3>2, <3>3, <3>4 DEF SessionsGrow
    <2>10. DisablingSignsOut'
      BY <1>1, <1>u, <2>1, <2>4, <2>6, <2>8, DisablesStay, SessionsTyped
    <2>11. ~ssOverlap => TokenMatches(ssJar, ssSessions')
      <3> HAVE ~ssOverlap
      <3>1. CookieRequest(r) BY <1>2 DEF CookieRequest, SetsCookies
      <3>2. ssJar.csrf = 0 BY <1>1, <1>4, <3>1 DEF JarFollows, FollowsJar
      <3> QED BY <3>2 DEF TokenMatches
    <2>12. PICK csrf \in Nat : csrf = ssTokens' BY <2>3
    <2>13. Replies(r, 0, csrf) BY <1>4, <2>12
    <2>14. 0 \in -1..Len(ssSessions') /\ csrf \in -1..ssTokens' /\ csrf \in Int
      BY <2>3, <2>8, <2>12
    <2>15. ssFlight[r].session # 0 /\ csrf = ssSessions'[ssFlight[r].session].csrf
      BY <2>2, <2>6, <2>8, <2>12
    <2> QED BY <1>2, <1>4, <1>u, <2>9, <2>10, <2>11, <2>13, <2>14, <2>15, AnswerSets
  <1> QED BY <1>3, <1>4 DEF reissued_csrf_cookie

LEMMA RevokeKeeps ==
    ASSUME SessionInv, NEW r \in Requests, NEW store, revoke_session(r, store)
    PROVE  SessionInv'
  <1>1. SessionShape /\ JarFollows /\ DisablingSignsOut BY DEF SessionInv
  <1>2. ssFlight[r] # NoRequest BY DEF revoke_session, NoRequest
  <1>3. ssFlight[r].kind \in {"login", "page", "logout"}
    BY <1>1, <1>2, FlightTyped DEF FlightFits, SentRequests, revoke_session
  <1>u. /\ UNCHANGED <<ssClock, ssEnv, ssUser, ssTokens, ssJar, ssGuesses, ssDisabled, ssOverlap>>
        /\ Replies(r, -1, -1)
    BY DEF revoke_session
  <1>4. PICK n \in Nat : n = Len(ssSessions) BY <1>1, SessionsTyped
  <1>5. /\ ssSessions' \in Seq(SessionRows) /\ Len(ssSessions') = n
        /\ DOMAIN ssSessions' = 1..n
        /\ \A i \in 1..n : /\ ssSessions'[i].csrf = ssSessions[i].csrf
                           /\ ssSessions'[i].disables = ssSessions[i].disables
                           /\ ssSessions[i].revoked => ssSessions'[i].revoked
    <2>1. CASE ssSessions' = ssSessions BY <1>1, <1>4, <2>1, SessionsTyped
    <2>2. CASE /\ ssFlight[r].session # 0
               /\ ssSessions' = [ssSessions EXCEPT ![ssFlight[r].session].revoked = TRUE]
      <3>1. PICK s \in 1..n : s = ssFlight[r].session
        <4>1. ssFlight[r].session \in Nat /\ ssFlight[r].session <= n
          BY <1>1, <1>2, <1>4, FlightTyped DEF FlightFits, SentRequests
        <4> QED BY <2>2, <4>1
      <3>2. PICK row \in SessionRows : row = ssSessions[s] BY <1>1, <1>4, SessionsTyped
      <3>3. PICK new : new = [row EXCEPT !.revoked = TRUE] OBVIOUS
      <3>4. /\ new \in SessionRows /\ new.csrf = row.csrf /\ new.disables = row.disables
            /\ new.revoked = TRUE
        BY <3>3 DEF SessionRows
      <3>5. ssSessions' = [ssSessions EXCEPT ![s] = new] BY <2>2, <3>1, <3>2, <3>3
      <3> QED BY <1>1, <1>4, <3>2, <3>4, <3>5, SessionsTyped
    <2> QED BY <2>1, <2>2 DEF revoke_session
  <1>6. ssTokens \in Nat BY <1>1, SessionClockIsInt
  <1>7. SessionsGrow
    BY <1>1, <1>4, <1>5, <1>6, <1>u, SessionsTyped DEF SessionsGrow, SessionShape
  <1>8. DisablingSignsOut' BY <1>1, <1>4, <1>5, <1>u, DisablesStay, SessionsTyped
  <1>9. ~ssOverlap => TokenMatches(ssJar, ssSessions')
    <2> HAVE ~ssOverlap
    <2>1. TokenMatches(ssJar, ssSessions) BY <1>1 DEF JarFollows
    <2>2. ssJar.session \in 0..Len(ssSessions) BY <1>1 DEF SessionShape
    <2> QED BY <1>1, <1>4, <1>5, <2>1, <2>2, SessionsTyped, TokenStays
  <1>10. /\ -1 \in Int /\ -1 \in -1..Len(ssSessions') /\ -1 \in -1..ssTokens'
    BY <1>5, <1>6, <1>u
  <1> QED BY <1>2, <1>3, <1>7, <1>8, <1>9, <1>10, <1>u, AnswerSets

\* The browser has the session of the answer with its token, or none, or kept its own.
LEMMA DeliverKeeps ==
    ASSUME SessionInv, NEW r \in Requests, Deliver(r) PROVE SessionInv'
  <1>1. SessionShape /\ JarFollows /\ GuessesInv /\ DisablingSignsOut BY DEF SessionInv
  <1>2. ssFlight[r] # NoRequest BY DEF Deliver, NoRequest
  <1>u. /\ UNCHANGED <<ssClock, ssEnv, ssUser, ssSessions, ssTokens, ssGuesses, ssDisabled, ssOverlap>>
        /\ ssFlight' = [ssFlight EXCEPT ![r] = NoRequest] /\ ssFlight[r].at = "reply"
    BY DEF Deliver
  <1>3. PICK f \in SentRequests : f = ssFlight[r] /\ FlightFits(f, Len(ssSessions), ssTokens)
    BY <1>1, <1>2, FlightTyped
  <1>4. PICK jar \in [session : 0..Len(ssSessions), csrf : 0..ssTokens, tab : Int] : jar = ssJar
    BY <1>1 DEF SessionShape
  <1>5. PICK session, csrf, tab :
          /\ session = Kept(jar.session, f.setSession) /\ csrf = Kept(jar.csrf, f.setCsrf)
          /\ tab = IF f.kind = "login" THEN f.setCsrf ELSE jar.tab
    OBVIOUS
  <1>6. ssJar' = [session |-> session, csrf |-> csrf, tab |-> tab]
    BY <1>3, <1>4, <1>5 DEF Deliver
  <1>7. /\ f.setSession \in -1..Len(ssSessions) /\ f.setCsrf \in -1..ssTokens
        /\ jar.session \in 0..Len(ssSessions) /\ jar.csrf \in 0..ssTokens /\ jar.tab \in Int
        /\ Len(ssSessions) \in Nat /\ ssTokens \in Nat /\ f.setCsrf \in Int
    BY <1>1, <1>3, SessionsTyped, SessionClockIsInt DEF FlightFits, SentRequests
  <1>8. session \in 0..Len(ssSessions) /\ csrf \in 0..ssTokens /\ tab \in Int
    BY <1>5, <1>7 DEF Kept
  <1>9. ssJar' \in [session : 0..Len(ssSessions), csrf : 0..ssTokens, tab : Int]
    BY <1>6, <1>8
  <1>10. ssFlight' \in [Requests -> SentRequests \cup {NoRequest}]
    <2> HIDE DEF SentRequests, NoRequest
    <2> QED BY <1>1, <1>u DEF SessionShape
  <1>11. ssFlight'[r] = NoRequest /\ \A o \in Requests \ {r} : ssFlight'[o] = ssFlight[o]
    BY <1>1, <1>u DEF SessionShape
  <1>12. SessionShape' BY <1>1, <1>9, <1>10, <1>11, <1>u DEF SessionShape
  <1>13. CookieRequest(r)
    BY <1>2, <1>3, <1>u DEF CookieRequest, SetsCookies, FlightFits, SentRequests
  <1>14. ASSUME ~ssOverlap PROVE TokenMatches(ssJar', ssSessions)
    <2>1. FollowsJar(f, jar, ssSessions) /\ TokenMatches(jar, ssSessions)
      BY <1>1, <1>3, <1>4, <1>13, <1>14 DEF JarFollows
    <2>2. f.session = jar.session /\ jar.csrf \in {0, f.csrf} BY <2>1 DEF FollowsJar
    <2>3. CASE f.setSession = -1 /\ f.setCsrf = -1
      BY <1>5, <1>6, <2>3 DEF Kept, TokenMatches
    <2>4. CASE /\ f.setSession = 0 /\ f.csrf = 0 /\ f.session # 0
               /\ f.setCsrf = ssSessions[f.session].csrf
      <3>1. f.session \in 1..Len(ssSessions) BY <1>7, <2>2, <2>4
      <3>2. f.setCsrf \in 1..ssTokens BY <1>1, <2>4, <3>1, SessionsTyped DEF SessionShape
      <3>3. session = f.session /\ csrf = f.setCsrf
        BY <1>5, <1>7, <2>2, <2>4, <3>2 DEF Kept
      <3> QED BY <1>6, <2>4, <3>3 DEF TokenMatches
    <2>5. CASE f.setSession \in 1..Len(ssSessions) /\ f.setCsrf = ssSessions[f.setSession].csrf
      <3>1. f.setCsrf \in 1..ssTokens BY <1>1, <2>5, SessionsTyped DEF SessionShape
      <3>2. session = f.setSession /\ csrf = f.setCsrf
        BY <1>5, <1>7, <2>5, <3>1 DEF Kept
      <3> QED BY <1>6, <2>5, <3>2 DEF TokenMatches
    <2> QED BY <1>3, <1>u, <2>1, <2>3, <2>4, <2>5 DEF FollowsJar, CookieAnswer
  <1>15. JarFollows'
    <2>1. ASSUME ~ssOverlap, NEW o \in Requests PROVE ~CookieRequest(o)'
      BY <1>1, <1>11, <1>13, <2>1 DEF JarFollows, CookieRequest
    <2> QED BY <1>14, <1>u, <2>1 DEF JarFollows
  <1>16. ssClock \in Int BY <1>1, SessionClockIsInt
  <1>17. GuessesInv' BY <1>1, <1>16, <1>u, GuessesStay
  <1>18. DisablingSignsOut' BY <1>1, <1>u, DisablesStay
  <1> QED BY <1>12, <1>15, <1>17, <1>18 DEF SessionInv

LEMMA SendKeeps ==
    ASSUME SessionInv, NEW r \in Requests, NEW kind, NEW basic \in BOOLEAN, Send(r, kind, basic)
    PROVE  SessionInv'
  <1>1. SessionShape /\ JarFollows /\ GuessesInv /\ DisablingSignsOut BY DEF SessionInv
  <1>u. UNCHANGED <<ssClock, ssEnv, ssUser, ssSessions, ssTokens, ssJar, ssGuesses, ssDisabled>>
    BY DEF Send
  <1>2. PICK jar \in [session : 0..Len(ssSessions), csrf : 0..ssTokens, tab : Int] : jar = ssJar
    BY <1>1 DEF SessionShape
  <1>3. PICK header : header = IF jar.csrf # 0 THEN jar.csrf ELSE jar.tab OBVIOUS
  <1>4. /\ jar.session \in Nat /\ jar.session <= Len(ssSessions) /\ jar.csrf \in Nat
        /\ jar.csrf <= ssTokens /\ header \in Int
        /\ Len(ssSessions) \in Nat /\ ssTokens \in Nat
    BY <1>1, <1>3, SessionsTyped, SessionClockIsInt
  <1>5. PICK f : f = [at |-> "sent", kind |-> kind, basic |-> basic, session |-> jar.session,
                      csrf |-> jar.csrf, header |-> header, method |-> "none", role |-> "",
                      setSession |-> 0, setCsrf |-> 0]
    OBVIOUS
  <1>s. kind \in {"login", "page", "logout", "post"} BY DEF Send
  <1>k. f.kind = kind BY <1>5, Zenon
  <1>6. f \in SentRequests
    <2>1. "" \in Roles \cup {""} OBVIOUS
    <2>2. /\ jar.session \in Nat /\ jar.csrf \in Nat /\ header \in Int
          /\ 0 \in Int /\ "sent" \in {"sent", "known", "in", "leaving", "reply", "done"}
          /\ "none" \in {"none", "local_unprotected", "session", "basic_fallback"}
      BY <1>4
    <2> QED BY <1>5, <1>s, <2>1, <2>2, Zenon DEF SentRequests
  <1>7. FlightFits(f, Len(ssSessions), ssTokens)
    <2>1. /\ f.at = "sent" /\ f.session = jar.session /\ f.csrf = jar.csrf
          /\ f.method = "none" /\ f.setSession = 0 /\ f.setCsrf = 0
      BY <1>5
    <2>2. 0 \in -1..Len(ssSessions) /\ 0 \in -1..ssTokens BY <1>4
    <2> QED BY <1>4, <1>6, <2>1, <2>2 DEF FlightFits
  <1>8. /\ ssFlight' = [ssFlight EXCEPT ![r] = f] /\ ssFlight[r] = NoRequest
        /\ ssOverlap' = (ssOverlap \/ (SetsCookies(kind) /\ \E o \in Requests :
                                          ssFlight[o] # NoRequest /\ SetsCookies(ssFlight[o].kind)))
    BY <1>2, <1>3, <1>5 DEF Send
  <1>9. ssFlight' \in [Requests -> SentRequests \cup {NoRequest}]
    <2> HIDE DEF SentRequests, NoRequest
    <2> QED BY <1>1, <1>6, <1>8 DEF SessionShape
  <1>10. ssFlight'[r] = f /\ \A o \in Requests \ {r} : ssFlight'[o] = ssFlight[o]
    BY <1>1, <1>8 DEF SessionShape
  <1>11. ssOverlap' \in BOOLEAN /\ (ssOverlap => ssOverlap') BY <1>8
  <1>12. SessionShape' BY <1>1, <1>7, <1>9, <1>10, <1>11, <1>u DEF SessionShape
  <1>13. JarFollows'
    <2> SUFFICES ASSUME ~ssOverlap' PROVE JarFollows'
      BY DEF JarFollows
    <2>1. ~ssOverlap BY <1>11
    <2>2. \A o \in Requests \ {r} : CookieRequest(o)' <=> CookieRequest(o)
      BY <1>10 DEF CookieRequest
    <2>3. CookieRequest(r)' => SetsCookies(kind)
      <3>1. ssFlight'[r].kind = kind BY <1>k, <1>10
      <3> QED BY <3>1 DEF CookieRequest
    <2>4. SetsCookies(kind) => \A o \in Requests : ~CookieRequest(o)
      BY <1>8 DEF CookieRequest
    <2>5. \A o, q \in Requests : CookieRequest(o)' /\ CookieRequest(q)' => o = q
      BY <1>1, <2>1, <2>2, <2>3, <2>4 DEF JarFollows
    <2>6. FollowsJar(f, ssJar, ssSessions)
      BY <1>2, <1>5 DEF FollowsJar, CookieAnswer
    <2>7. \A o \in Requests : CookieRequest(o)' => FollowsJar(ssFlight'[o], ssJar, ssSessions)
      BY <1>1, <1>10, <2>1, <2>2, <2>6 DEF JarFollows
    <2>8. TokenMatches(ssJar, ssSessions) BY <1>1, <2>1 DEF JarFollows
    <2> QED BY <1>u, <2>5, <2>7, <2>8 DEF JarFollows
  <1>14. ssClock \in Int BY <1>1, SessionClockIsInt
  <1>15. GuessesInv' BY <1>1, <1>14, <1>u, GuessesStay
  <1>16. DisablingSignsOut' BY <1>1, <1>u, DisablesStay
  <1> QED BY <1>12, <1>13, <1>15, <1>16 DEF SessionInv

LEMMA DropCsrfKeeps == ASSUME SessionInv, DropCsrfCookie PROVE SessionInv'
  <1>1. SessionShape /\ JarFollows /\ GuessesInv /\ DisablingSignsOut BY DEF SessionInv
  <1>u. UNCHANGED <<ssClock, ssEnv, ssUser, ssSessions, ssTokens, ssFlight, ssGuesses,
                    ssDisabled, ssOverlap>>
    BY DEF DropCsrfCookie
  <1>2. PICK jar \in [session : 0..Len(ssSessions), csrf : 0..ssTokens, tab : Int] : jar = ssJar
    BY <1>1 DEF SessionShape
  <1>3. PICK new : new = [jar EXCEPT !.csrf = 0] OBVIOUS
  <1>4. ssJar' = new BY <1>2, <1>3 DEF DropCsrfCookie
  <1>5. 0 \in 0..ssTokens BY <1>1, SessionClockIsInt
  <1>6. /\ new \in [session : 0..Len(ssSessions), csrf : 0..ssTokens, tab : Int]
        /\ new.csrf = 0 /\ new.session = jar.session
    BY <1>3, <1>5
  <1>7. SessionShape' BY <1>1, <1>4, <1>6, <1>u DEF SessionShape
  <1>8. JarFollows'
    <2>1. \A r : CookieRequest(r)' <=> CookieRequest(r) BY <1>u DEF CookieRequest
    <2>2. \A f : FollowsJar(f, jar, ssSessions) => FollowsJar(f, new, ssSessions)
      BY <1>6 DEF FollowsJar
    <2>3. TokenMatches(new, ssSessions) BY <1>6 DEF TokenMatches
    <2> QED BY <1>1, <1>2, <1>4, <1>u, <2>1, <2>2, <2>3 DEF JarFollows
  <1>14. ssClock \in Int BY <1>1, SessionClockIsInt
  <1>15. GuessesInv' BY <1>1, <1>14, <1>u, GuessesStay
  <1>16. DisablingSignsOut' BY <1>1, <1>u, DisablesStay
  <1> QED BY <1>7, <1>8, <1>15, <1>16 DEF SessionInv

LEMMA SessionTickKeeps == ASSUME SessionInv, SessionTick PROVE SessionInv'
  <1>1. SessionShape /\ JarFollows /\ GuessesInv /\ DisablingSignsOut BY DEF SessionInv
  <1>u. UNCHANGED <<ssEnv, ssUser, ssSessions, ssTokens, ssJar, ssFlight, ssGuesses,
                    ssDisabled, ssOverlap>>
    BY DEF SessionTick
  <1>2. ssClock \in Nat /\ MaxSessionClock \in Nat BY <1>1, SessionClockIsInt, SessionAssumption
  <1>3. ssClock' \in 0..MaxSessionClock /\ ssClock <= ssClock' /\ ssClock' \in Int
    BY <1>2 DEF SessionTick
  <1>4. SessionShape' BY <1>1, <1>3, <1>u DEF SessionShape
  <1>5. JarFollows'
    <2>1. \A r : CookieRequest(r)' <=> CookieRequest(r) BY <1>u DEF CookieRequest
    <2> QED BY <1>1, <1>u, <2>1 DEF JarFollows
  <1>6. GuessesInv' BY <1>1, <1>2, <1>3, <1>u, GuessesStay
  <1>7. DisablingSignsOut' BY <1>1, <1>u, DisablesStay
  <1> QED BY <1>4, <1>5, <1>6, <1>7 DEF SessionInv

\* A server that starts has no request open.
LEMMA StartServerKeeps ==
    ASSUME SessionInv, NEW e \in Deployments, StartServer(e) PROVE SessionInv'
  <1>1. SessionShape /\ JarFollows /\ GuessesInv /\ DisablingSignsOut BY DEF SessionInv
  <1>u. /\ UNCHANGED <<ssClock, ssUser, ssSessions, ssTokens, ssJar, ssGuesses, ssDisabled,
                       ssOverlap>>
        /\ ssEnv' = e /\ ssFlight' = [r \in Requests |-> NoRequest]
    BY DEF StartServer
  <1>2. ssFlight' \in [Requests -> SentRequests \cup {NoRequest}]
    <2> HIDE DEF SentRequests, NoRequest
    <2> QED BY <1>u
  <1>3. \A r \in Requests : ssFlight'[r] = NoRequest
    BY <1>u
  <1>4. SessionShape' BY <1>1, <1>2, <1>3, <1>u DEF SessionShape
  <1>5. JarFollows'
    <2>1. \A r \in Requests : ~CookieRequest(r)' BY <1>3 DEF CookieRequest
    <2> QED BY <1>1, <1>u, <2>1 DEF JarFollows
  <1>14. ssClock \in Int BY <1>1, SessionClockIsInt
  <1>15. GuessesInv' BY <1>1, <1>14, <1>u, GuessesStay
  <1>16. DisablingSignsOut' BY <1>1, <1>u, DisablesStay
  <1> QED BY <1>4, <1>5, <1>15, <1>16 DEF SessionInv

LEMMA SetDisabledKeeps ==
    ASSUME SessionInv, NEW disabled \in BOOLEAN, set_disabled(disabled) PROVE SessionInv'
  <1>1. SessionShape /\ JarFollows /\ GuessesInv /\ DisablingSignsOut BY DEF SessionInv
  <1>u. UNCHANGED <<ssClock, ssEnv, ssTokens, ssJar, ssFlight, ssGuesses, ssOverlap>>
    BY DEF set_disabled
  <1>2. PICK n \in Nat : n = Len(ssSessions) BY <1>1, SessionsTyped
  <1>3. PICK user \in [disabled : BOOLEAN, failures : Nat, locked : Int] : user = ssUser
    BY <1>1 DEF SessionShape
  <1>4. ssUser' = [user EXCEPT !.disabled = disabled] BY <1>3 DEF set_disabled
  <1>5. /\ ssUser' \in [disabled : BOOLEAN, failures : Nat, locked : Int]
        /\ ssUser'.failures = ssUser.failures /\ ssUser'.locked = ssUser.locked
    BY <1>3, <1>4
  <1>6. /\ ssSessions' \in Seq(SessionRows) /\ Len(ssSessions') = n
        /\ DOMAIN ssSessions' = 1..n
        /\ \A i \in 1..n : ssSessions'[i].csrf = ssSessions[i].csrf
        /\ disabled => \A i \in 1..n : ssSessions'[i].revoked
    <2>1. CASE ~disabled BY <1>1, <1>2, <2>1, SessionsTyped DEF set_disabled
    <2>2. CASE disabled
      <3>1. ssSessions' = [s \in 1..n |-> [ssSessions[s] EXCEPT !.revoked = TRUE]]
        BY <1>1, <1>2, <2>2, SessionsTyped DEF set_disabled
      <3>2. \A s \in 1..n : /\ [ssSessions[s] EXCEPT !.revoked = TRUE] \in SessionRows
                            /\ [ssSessions[s] EXCEPT !.revoked = TRUE].csrf = ssSessions[s].csrf
                            /\ [ssSessions[s] EXCEPT !.revoked = TRUE].revoked = TRUE
        <4> TAKE s \in 1..n
        <4>1. ssSessions[s] \in SessionRows BY <1>1, <1>2, SessionsTyped
        <4> QED BY <4>1 DEF SessionRows
      <3>3. ssSessions' \in Seq(SessionRows) /\ Len(ssSessions') = n
        BY <3>1, <3>2, <1>2
      <3> QED BY <3>1, <3>2, <3>3
    <2> QED BY <2>1, <2>2
  <1>7. ssDisabled' \in Nat /\ ssDisabled \in Nat BY <1>1 DEF set_disabled, SessionShape
  <1>8. SessionShape'
    <2>1. \A i \in DOMAIN ssSessions' : ssSessions'[i].csrf \in 1..ssTokens
      BY <1>1, <1>2, <1>6, SessionsTyped DEF SessionShape
    <2> QED BY <1>1, <1>2, <1>5, <1>6, <1>7, <1>u, <2>1 DEF SessionShape
  <1>9. JarFollows'
    <2> SUFFICES ASSUME ~ssOverlap PROVE JarFollows'
      BY <1>u DEF JarFollows
    <2>1. \A r : CookieRequest(r)' <=> CookieRequest(r) BY <1>u DEF CookieRequest
    <2>2. ssJar.session \in 0..Len(ssSessions) BY <1>1 DEF SessionShape
    <2>t. ssSessions \in Seq(SessionRows) BY <1>1, SessionsTyped
    <2>3. TokenMatches(ssJar, ssSessions')
      BY <1>1, <1>2, <1>6, <2>2, <2>t, TokenStays DEF JarFollows
    <2>4. ASSUME NEW r \in Requests, CookieRequest(r)
          PROVE  FollowsJar(ssFlight[r], ssJar, ssSessions')
      <3>1. FollowsJar(ssFlight[r], ssJar, ssSessions) BY <1>1, <2>4 DEF JarFollows
      <3>2. ssFlight[r].session \in 0..Len(ssSessions) BY <2>2, <3>1 DEF FollowsJar
      <3>a. /\ ssSessions' \in Seq(SessionRows) /\ Len(ssSessions) <= Len(ssSessions')
            /\ \A i \in 1..Len(ssSessions) : ssSessions'[i].csrf = ssSessions[i].csrf
            /\ CookieAnswer(ssFlight[r], ssSessions)
        BY <1>2, <1>6, <3>1 DEF FollowsJar
      <3>3. CookieAnswer(ssFlight[r], ssSessions')
        BY <2>t, <3>2, <3>a, AnswerStays
      <3> QED BY <3>1, <3>3 DEF FollowsJar
    <2> QED BY <1>1, <1>u, <2>1, <2>3, <2>4 DEF JarFollows
  <1>14. ssClock \in Int BY <1>1, SessionClockIsInt
  <1>15. GuessesInv' BY <1>1, <1>5, <1>14, <1>u, GuessesStay
  <1>16. DisablingSignsOut'
    <2>1. CASE disabled BY <1>6, <2>1 DEF DisablingSignsOut
    <2>2. CASE ~disabled
      <3>1. ssSessions' = ssSessions /\ ssDisabled' = ssDisabled BY <2>2 DEF set_disabled
      <3> QED BY <1>1, <3>1 DEF DisablingSignsOut
    <2> QED BY <2>1, <2>2
  <1> QED BY <1>8, <1>9, <1>15, <1>16 DEF SessionInv

----------------------------------------------------------------------------
(* Every step *)

LEMMA RequestStepKeeps ==
    ASSUME SessionInv, NEW r \in Requests, RequestStep(r) PROVE SessionInv'
  <1>1. CASE Deliver(r) BY <1>1, DeliverKeeps
  <1>2. CASE LoseReply(r) BY <1>2, LoseReplyKeeps
  <1>3. CASE create_session(r) BY <1>3, CreateSessionKeeps
  <1>4. ASSUME NEW store,
               \/ authorize_request(r, store) \/ reissued_csrf_cookie(r, store)
               \/ handle_logout(r, store) \/ revoke_session(r, store) \/ do_POST(r, store)
        PROVE  SessionInv'
    BY <1>4, AuthorizeKeeps, ReissueKeeps, LogoutKeeps, RevokeKeeps, PostKeeps
  <1> QED BY <1>1, <1>2, <1>3, <1>4 DEF RequestStep

LEMMA SessionStep == ASSUME SessionInv, ssNext PROVE SessionInv'
  <1>1. CASE SessionTick BY <1>1, SessionTickKeeps
  <1>2. CASE DropCsrfCookie BY <1>2, DropCsrfKeeps
  <1>3. ASSUME NEW e \in Deployments, StartServer(e) PROVE SessionInv'
    BY <1>3, StartServerKeeps
  <1>4. ASSUME NEW disabled \in BOOLEAN, set_disabled(disabled) PROVE SessionInv'
    BY <1>4, SetDisabledKeeps
  <1>5. ASSUME NEW r \in Requests, RequestStep(r) PROVE SessionInv'
    BY <1>5, RequestStepKeeps
  <1>6. ASSUME NEW r \in Requests, NEW right \in BOOLEAN, authenticate_password(r, right)
        PROVE  SessionInv'
    BY <1>6, AuthenticateKeeps
  <1>7. ASSUME NEW r \in Requests, NEW kind, NEW basic \in BOOLEAN, Send(r, kind, basic)
        PROVE  SessionInv'
    BY <1>7, SendKeeps
  <1> QED BY <1>1, <1>2, <1>3, <1>4, <1>5, <1>6, <1>7 DEF ssNext

LEMMA SessionStutters == ASSUME SessionInv, UNCHANGED ssVars PROVE SessionInv'
  <1>1. SessionShape' /\ JarFollows'
    <2>1. \A r : CookieRequest(r)' <=> CookieRequest(r) BY DEF CookieRequest, ssVars
    <2> QED BY <2>1 DEF SessionInv, SessionShape, JarFollows, ssVars
  <1>2. GuessesInv'
    <2>1. ssClock \in Int BY SessionClockIsInt DEF SessionInv
    <2> QED BY <2>1, GuessesStay DEF SessionInv, ssVars
  <1>3. DisablingSignsOut' BY DEF SessionInv, DisablingSignsOut, ssVars
  <1> QED BY <1>1, <1>2, <1>3 DEF SessionInv

LEMMA SessionStarts == ASSUME ssInit PROVE SessionInv
  <1>1. /\ ssClock = 0 /\ ssEnv = NoSettings /\ ssSessions = << >> /\ ssTokens = 0
        /\ ssUser = [disabled |-> FALSE, failures |-> 0, locked |-> 0]
        /\ ssJar = [session |-> 0, csrf |-> 0, tab |-> 0]
        /\ ssFlight = [r \in Requests |-> NoRequest]
        /\ ssGuesses = << >> /\ ssDisabled = 0 /\ ssOverlap = FALSE
    BY DEF ssInit
  <1>2. ssFlight \in [Requests -> SentRequests \cup {NoRequest}]
    <2> HIDE DEF SentRequests, NoRequest
    <2> QED BY <1>1
  <1>3. \A r \in Requests : ssFlight[r] = NoRequest BY <1>1
  <1>4. SessionShape
    <2>1. MaxSessionClock \in Nat /\ MaxTokens \in Nat BY SessionAssumption
    <2>2. 0 \in 0..MaxSessionClock /\ 0 \in 0..MaxTokens BY <2>1
    <2>3. Len(ssSessions) = 0 /\ DOMAIN ssSessions = {} BY <1>1
    <2>4. ssJar \in [session : 0..Len(ssSessions), csrf : 0..ssTokens, tab : Int]
      BY <1>1, <2>3
    <2>5. ssUser \in [disabled : BOOLEAN, failures : Nat, locked : Int] BY <1>1
    <2>6. ssSessions \in Seq(SessionRows) BY <1>1
    <2> QED BY <1>1, <1>2, <1>3, <2>2, <2>3, <2>4, <2>5, <2>6 DEF SessionShape
  <1>5. JarFollows
    <2>1. \A r \in Requests : ~CookieRequest(r) BY <1>3 DEF CookieRequest
    <2>2. TokenMatches(ssJar, ssSessions) BY <1>1 DEF TokenMatches
    <2> QED BY <2>1, <2>2 DEF JarFollows
  <1>6. GuessesInv
    <2>1. DOMAIN ssGuesses = {} /\ Len(ssGuesses) = 0 /\ ssGuesses \in Seq(GuessRows)
      BY <1>1
    <2>2. StreakWrongs(0) = {} BY DEF StreakWrongs
    <2>3. ssUser.failures = Cardinality(StreakWrongs(Len(ssGuesses)))
      BY <1>1, <2>1, <2>2, FS_EmptySet
    <2> QED BY <2>1, <2>3 DEF GuessesInv, GuessesCounted, GuessesAreSpaced
  <1>7. DisablingSignsOut BY <1>1 DEF DisablingSignsOut
  <1> QED BY <1>4, <1>5, <1>6, <1>7 DEF SessionInv

\* The run's focus only takes steps of the component.
LEMMA SessionFrame == ASSUME [Next]_vars PROVE ssNext \/ UNCHANGED ssVars
  <1>1. ASSUME SessionFocus PROVE ssNext
    <2> DEFINE alone == CHOOSE r \in Requests : TRUE
               some == IF Only("sessions", "tokens") THEN Requests ELSE {alone}
               kinds == IF Only("sessions", "tokens") THEN {"login", "page", "logout"}
                        ELSE IF Only("sessions", "locks") THEN {"login"} ELSE {"login", "post"}
    <2>1. alone \in Requests
      <3>1. \E r \in Requests : TRUE BY SessionAssumption
      <3> QED BY <3>1, Zenon
    <2>2. some \subseteq Requests BY <2>1
    <2>3. \A part : Only("sessions", part) \in BOOLEAN BY DEF Only
    <2>4. kinds \subseteq {"login", "page", "logout", "post"} OBVIOUS
    <2>5. \/ SessionTick \/ DropCsrfCookie
          \/ \E e \in Deployments : StartServer(e)
          \/ \E disabled \in BOOLEAN : set_disabled(disabled)
          \/ \E r \in some :
                \/ RequestStep(r)
                \/ \E right \in {TRUE, Only("sessions", "tokens")} : authenticate_password(r, right)
                \/ \E kind \in kinds, basic \in {FALSE, Only("sessions", "rest")} :
                      Send(r, kind, basic)
      BY <1>1 DEF SessionFocus
    <2> HIDE DEF some, kinds
    <2>6. ASSUME NEW r \in some, RequestStep(r) PROVE ssNext BY <2>2, <2>6 DEF ssNext
    <2>7. ASSUME NEW r \in some, NEW right \in {TRUE, Only("sessions", "tokens")},
                 authenticate_password(r, right)
          PROVE  ssNext
      <3>1. right \in BOOLEAN BY <2>3
      <3> QED BY <2>2, <2>7, <3>1 DEF ssNext
    <2>8. ASSUME NEW r \in some, NEW kind \in kinds,
                 NEW basic \in {FALSE, Only("sessions", "rest")}, Send(r, kind, basic)
          PROVE  ssNext
      <3>1. basic \in BOOLEAN BY <2>3
      <3> QED BY <2>2, <2>4, <2>8, <3>1 DEF ssNext
    <2> QED BY <2>5, <2>6, <2>7, <2>8 DEF ssNext
  <1>2. CASE UNCHANGED vars BY <1>2 DEF vars
  <1>3. CASE Next BY <1>1, <1>3 DEF Next
  <1> QED BY <1>2, <1>3

LEMMA SessionIsInductive == Spec => []SessionInv
  <1>1. Init => SessionInv BY SessionStarts DEF Init
  <1>2. SessionInv /\ [Next]_vars => SessionInv'
    BY SessionFrame, SessionStep, SessionStutters
  <1> QED BY <1>1, <1>2, PTL DEF Spec

----------------------------------------------------------------------------
(* What the gate's report says of the environment it was made for *)

PreflightInv ==
    /\ pfEnv = NoEnvironment \/ pfEnv \in Environments
    /\ pfReport # NoReportYet =>
          /\ pfEnv \in Environments
          /\ pfReport = <<check_migrations(pfEnv), check_safety_controls(pfEnv),
                          check_auth_configuration(pfEnv), check_sign_in_possible(pfEnv)>>

LEMMA PreflightFrame == ASSUME [Next]_vars PROVE pfNext \/ UNCHANGED pfVars
  BY DEF Next, vars

LEMMA PreflightIsInductive == Spec => []PreflightInv
  <1>1. Init => PreflightInv BY DEF Init, pfInit, PreflightInv
  <1>2. PreflightInv /\ [Next]_vars => PreflightInv'
    <2> SUFFICES ASSUME PreflightInv, [Next]_vars PROVE PreflightInv'
      OBVIOUS
    <2>1. CASE run_preflight BY <2>1 DEF run_preflight, PreflightInv
    <2>2. ASSUME NEW e \in Environments, ChooseEnvironment(e) PROVE PreflightInv'
      <3>1. pfEnv = NoEnvironment /\ pfEnv' = e /\ pfReport' = pfReport
        BY <2>2 DEF ChooseEnvironment
      <3>2. NoEnvironment \notin Environments
        <4>1. "pending" \notin DOMAIN NoEnvironment BY DEF NoEnvironment, NoSettings
        <4>2. \A x \in Environments : "pending" \in DOMAIN x BY DEF Environments
        <4> QED BY <4>1, <4>2
      <3> QED BY <3>1, <3>2 DEF PreflightInv
    <2>3. CASE UNCHANGED pfVars
      BY <2>3 DEF pfVars, PreflightInv
    <2> QED BY <2>1, <2>2, <2>3, PreflightFrame DEF pfNext
  <1> QED BY <1>1, <1>2, PTL DEF Spec

LEMMA ReportsAreRight == ASSUME PreflightInv PROVE ReadyMeansSignIn
  <1> SUFFICES ASSUME PreflightReady PROVE ReadyMeansSignIn
    BY DEF ReadyMeansSignIn
  <1>1. PICK e \in Environments : e = pfEnv
    BY DEF PreflightReady, PreflightInv
  <1>2. pfReport = <<check_migrations(e), check_safety_controls(e),
                     check_auth_configuration(e), check_sign_in_possible(e)>>
    BY <1>1 DEF PreflightReady, PreflightInv
  <1>3. /\ check_safety_controls(e) # "fail" /\ check_auth_configuration(e) # "fail"
        /\ check_sign_in_possible(e) \notin {"fail", "unknown"}
    <2>1. DOMAIN pfReport = 1..4 BY <1>2
    <2>2. \A i \in 1..4 : pfReport[i] \notin {"fail", "unknown"} BY <2>1 DEF PreflightReady
    <2>3. /\ pfReport[2] = check_safety_controls(e) /\ pfReport[3] = check_auth_configuration(e)
          /\ pfReport[4] = check_sign_in_possible(e)
      BY <1>2
    <2> QED BY <2>2, <2>3
  <1>4. /\ e.hosted \in {"no", "environment", "public_domain"}
        /\ e.require \in {"unset", "on", "off"} /\ e.flag = FALSE /\ e.role = ""
        /\ e.users \in BOOLEAN /\ e.password \in BOOLEAN /\ e.fallback \in BOOLEAN
        /\ e.accounts \in 0..1
    BY DEF Environments
  <1>5. e.users \/ (e.fallback /\ e.password)
    BY <1>3 DEF check_auth_configuration, BasicFallback
  <1>6. e.users => e.accounts > 0
    <2>1. e.users => e.accounts # 0 BY <1>3, Zenon DEF check_sign_in_possible
    <2>2. PICK accounts \in 0..1 : accounts = e.accounts BY <1>4
    <2> QED BY <2>1, <2>2
  <1> DEFINE s == ServerSettings(e)
  <1>7. /\ s.hosted = (e.hosted # "no") /\ s.require = (e.require # "off")
        /\ s.flag = FALSE /\ s.users = e.users /\ s.password = e.password
        /\ s.fallback = e.fallback
    BY <1>4 DEF ServerSettings
  <1> HIDE DEF s
  <1>8. dashboard_auth_enabled(s) BY <1>5, <1>7 DEF dashboard_auth_enabled
  <1>9. dashboard_auth_configured(s) BY <1>5, <1>7 DEF dashboard_auth_configured
  <1>10. (s.users /\ e.accounts > 0) \/ (s.fallback /\ valid_dashboard_auth(s, TRUE))
    BY <1>5, <1>6, <1>7 DEF valid_dashboard_auth
  <1>11. ~valid_dashboard_auth(s, FALSE) BY <1>8 DEF valid_dashboard_auth
  <1> QED BY <1>1, <1>8, <1>9, <1>10, <1>11 DEF ReadyMeansSignIn, s

----------------------------------------------------------------------------
(* The properties *)

\* Every role is at least that of a reader.
LEMMA RolesAreRanked == \A role \in Roles : role_allows(role, "read_only")
  BY DEF role_allows, ROLE_RANK, Roles

LEMMA CatalogListsServedRoutes == CatalogIsFetchable
  <1> SUFFICES ASSUME NEW role \in Roles, NEW route \in build_data_catalog_payload(role)
               PROVE  do_GET(route, role)
    BY DEF CatalogIsFetchable
  <1>1. \A required \in {"admin", "read_only"} :
            route \in RoutesFor[required] /\ role_allows(role, required) => do_GET(route, role)
    <2>1. DOMAIN RoutesFor = {"admin", "read_only"} BY DEF RoutesFor
    <2> QED BY <2>1 DEF do_GET
  <1>2. \A required \in {"admin", "researcher", "read_only"} :
            route \in MoreRoutesFor[required] /\ role_allows(role, required) => do_GET(route, role)
    <2>1. DOMAIN MoreRoutesFor = {"admin", "researcher", "read_only"} BY DEF MoreRoutesFor
    <2> QED BY <2>1 DEF do_GET
  <1>3. CASE route \in {"/api/v1/games", "/api/v1/markets"}
    <2>1. route \in MoreRoutesFor["read_only"] BY <1>3 DEF MoreRoutesFor
    <2> QED BY <1>2, <2>1, RolesAreRanked
  <1>4. CASE role_allows(role, "researcher") /\ route \in {"/slip-analysis.json"}
    <2>1. route \in MoreRoutesFor["researcher"] BY <1>4 DEF MoreRoutesFor
    <2> QED BY <1>2, <1>4, <2>1
  <1>5. CASE role_allows(role, "admin")
             /\ route \in {"/sports.json", "/sports-clv.json", "/api/v1/source-data",
                           "/api/v1/source-data/entities", "/api/v1/source-data/markets",
                           "/api/v1/source-data/live"}
    <2>1. route \in MoreRoutesFor["admin"] \/ route \in RoutesFor["admin"]
      BY <1>5 DEF MoreRoutesFor, RoutesFor
    <2> QED BY <1>1, <1>2, <1>5, <2>1
  <1> QED BY <1>3, <1>4, <1>5 DEF build_data_catalog_payload

LEMMA TokensAreCurrent == ASSUME JarFollows PROVE TokenIsCurrentAlone
  BY DEF JarFollows, TokenMatches, TokenIsCurrentAlone, TokenIsCurrent

\* However many requests of one browser are open and whatever the order of their
\* transactions (auth.py): a browser none of whose cookie-setting requests overlapped
\* holds the request token of its live session; after MaximumFailures wrong
\* passwords in a row the next one judged comes no sooner than the lock's length;
\* disabling an account revokes every session made before it, for good.  The
\* catalog lists to a role only what do_GET serves it (paper_server.py).  Of an
\* environment that preflight.py calls ready, nobody gets in without credentials
\* and somebody does with them.
THEOREM AccessGuarded == Spec => []AccessIsGuarded
  <1>1. SessionInv /\ PreflightInv => AccessIsGuarded
    <2> SUFFICES ASSUME SessionInv, PreflightInv PROVE AccessIsGuarded
      OBVIOUS
    <2>1. TokenIsCurrentAlone BY TokensAreCurrent DEF SessionInv
    <2>2. GuessesAreSpaced /\ DisablingSignsOut BY DEF SessionInv, GuessesInv
    <2> QED BY <2>1, <2>2, CatalogListsServedRoutes, ReportsAreRight DEF AccessIsGuarded
  <1> QED BY <1>1, SessionIsInductive, PreflightIsInductive, PTL

----------------------------------------------------------------------------
(* CatalogStore: the books of the markets, and their pages. *)

LEMMA LeastNatural ==
    ASSUME NEW S \in SUBSET Nat, S # {}
    PROVE  \E n \in S : \A m \in S : n <= m
  <1>1. PICK n \in S : \A m \in S : ~(<<m, n>> \in OpToRel(<, Nat))
    BY WFMin, NatLessThanWellFounded
  <1>2. \A m \in S : m \in Nat /\ n \in Nat /\ ~(m < n)
    <2> TAKE m \in S
    <2>1. m \in Nat /\ n \in Nat /\ <<m, n>> \in Nat \X Nat OBVIOUS
    <2>2. m < n => <<m, n>> \in OpToRel(<, Nat) BY <2>1 DEF OpToRel
    <2> QED BY <1>1, <2>1, <2>2
  <1> QED BY <1>2

LEMMA AppendTyped ==
    ASSUME NEW S, NEW s \in Seq(S), NEW e \in S
    PROVE  /\ Append(s, e) \in Seq(S) /\ Len(Append(s, e)) = Len(s) + 1
           /\ DOMAIN Append(s, e) = 1..Len(s) + 1
           /\ Append(s, e)[Len(s) + 1] = e
           /\ \A i \in 1..Len(s) : Append(s, e)[i] = s[i]
  OBVIOUS

LEMMA ElementsTyped ==
    ASSUME NEW S, NEW s \in Seq(S)
    PROVE  /\ Len(s) \in Nat /\ DOMAIN s = 1..Len(s) /\ \A i \in DOMAIN s : s[i] \in S
           /\ s # << >> => Len(s) \in DOMAIN s
  OBVIOUS

CatalogPolls == [kind : RowKinds \cup {"live"}, id : CatalogIds, value : Values,
                 start : GameStarts, at : Int]
Books == [value : Values, at : Int]

LEMMA BooksTyped ==
    ASSUME NEW books \in Seq(Books)
    PROVE  /\ Len(books) \in Nat /\ DOMAIN books = 1..Len(books)
           /\ \A i \in DOMAIN books : books[i].at \in Int
           /\ books # << >> => Len(books) \in DOMAIN books
  <1>1. /\ Len(books) \in Nat /\ DOMAIN books = 1..Len(books)
        /\ \A i \in DOMAIN books : books[i] \in Books
        /\ books # << >> => Len(books) \in DOMAIN books
    BY ElementsTyped
  <1>2. \A b \in Books : b.at \in Int BY DEF Books
  <1> QED BY <1>1, <1>2

CatalogShape ==
    /\ csTypeOK
    /\ csPoll \in [CatalogCollectors -> CatalogPolls \cup {NoPoll}]
    /\ \A c \in CatalogCollectors : csPoll[c] # NoPoll => csPoll[c].at \in 0..csClock
    /\ csBooks \in [CatalogIds -> Seq(Books)]
    /\ csLate \in BOOLEAN

\* The books of a market follow each other in time, and the last one is what its row says.
MarketRow(id) == <<"market", id>>
BooksFollow(books, rows, id) ==
    /\ \A i, j \in DOMAIN books : i < j => books[i].at < books[j].at
    /\ books # << >> =>
          /\ MarketRow(id) \in DOMAIN rows
          /\ books[Len(books)].at <= rows[MarketRow(id)].seen
          /\ books[Len(books)].value = rows[MarketRow(id)].value
CatalogInv ==
    CatalogShape /\ (~csLate => \A id \in CatalogIds : BooksFollow(csBooks[id], csRows, id))

LEMMA CatalogStarts == ASSUME csInit PROVE CatalogInv
  <1>1. CatalogShape
    <2>1. csTypeOK BY CatalogStoreAssumption DEF csInit, csTypeOK
    <2>2. csPoll \in [CatalogCollectors -> CatalogPolls \cup {NoPoll}] BY DEF csInit
    <2>3. \A c \in CatalogCollectors : csPoll[c] = NoPoll BY DEF csInit
    <2>4. csBooks \in [CatalogIds -> Seq(Books)] BY DEF csInit
    <2> QED BY <2>1, <2>2, <2>3, <2>4 DEF csInit, CatalogShape
  <1>2. \A id \in CatalogIds : BooksFollow(csBooks[id], csRows, id)
    BY DEF csInit, BooksFollow
  <1> QED BY <1>1, <1>2 DEF CatalogInv

LEMMA PollTyped ==
    ASSUME CatalogShape, NEW c \in CatalogCollectors, csPoll[c] # NoPoll
    PROVE  csPoll[c] \in CatalogPolls /\ csPoll[c].at \in 0..csClock
  BY DEF CatalogShape

LEMMA NoPollHasNoKind == NoPoll.kind = "none"
  BY DEF NoPoll

\* What an upsert makes of the rows.
LEMMA RowUpserted ==
    ASSUME NEW p \in CatalogPolls, p.at \in 0..csClock, csTypeOK, UpsertRow(p),
           p.kind \in RowKinds
    PROVE  /\ DOMAIN csRows' = DOMAIN csRows \cup {<<p.kind, p.id>>}
           /\ \A key \in DOMAIN csRows : key # <<p.kind, p.id>> => csRows'[key] = csRows[key]
           /\ csRows'[<<p.kind, p.id>>].value = p.value
           /\ csRows'[<<p.kind, p.id>>].seen = p.at
           /\ csRows'[<<p.kind, p.id>>].first \in 0..csClock
  <1> DEFINE key == <<p.kind, p.id>>
             row == [value |-> p.value, start |-> p.start, seen |-> p.at,
                     first |-> IF key \in DOMAIN csRows THEN csRows[key].first ELSE p.at]
  <1>1. csRows' = [k \in DOMAIN csRows \cup {key} |-> IF k = key THEN row ELSE csRows[k]]
    BY DEF UpsertRow
  <1>2. row.first \in 0..csClock BY DEF csTypeOK
  <1>3. row.value = p.value /\ row.seen = p.at OBVIOUS
  <1> HIDE DEF row, key
  <1>4. DOMAIN csRows' = DOMAIN csRows \cup {key} BY <1>1
  <1>5. csRows'[key] = row BY <1>1
  <1>6. \A k \in DOMAIN csRows : k # key => csRows'[k] = csRows[k] BY <1>1
  <1> QED BY <1>2, <1>3, <1>4, <1>5, <1>6 DEF key

LEMMA RowsTyped ==
    ASSUME NEW p \in CatalogPolls, p.at \in 0..csClock, csTypeOK, UpsertRow(p),
           p.kind \in RowKinds, csClock' = csClock, csStores' = csStores,
           \A s \in csSnapshots' : s.kind \in {"entity", "live"} /\ s.value \in Values
    PROVE  csTypeOK'
  <1>1. <<p.kind, p.id>> \in RowKinds \X CatalogIds BY DEF CatalogPolls
  <1>2. \A key \in DOMAIN csRows' :
          /\ key \in RowKinds \X CatalogIds
          /\ csRows'[key].first \in 0..csClock /\ csRows'[key].seen \in 0..csClock
    BY <1>1, RowUpserted DEF csTypeOK
  <1> QED BY <1>2 DEF csTypeOK

\* A collector that has stored its poll has none.
LEMMA StoredShape ==
    ASSUME CatalogShape, NEW c \in CatalogCollectors, NEW p, Stored(c, p), csTypeOK',
           csBooks' \in [CatalogIds -> Seq(Books)]
    PROVE  CatalogShape'
  <1>1. csPoll' \in [CatalogCollectors -> CatalogPolls \cup {NoPoll}] BY DEF CatalogShape, Stored
  <1>2. \A d \in CatalogCollectors : csPoll'[d] # NoPoll => csPoll'[d] = csPoll[d]
    BY DEF CatalogShape, Stored
  <1>3. csClock' = csClock BY DEF Stored
  <1>4. csLate' \in BOOLEAN BY DEF Stored, CatalogShape
  <1> QED BY <1>1, <1>2, <1>3, <1>4 DEF CatalogShape

\* An upsert of another row, or of none, leaves the books of a market what its row says.
LEMMA OthersFollow ==
    ASSUME NEW id, BooksFollow(csBooks[id], csRows, id), csBooks'[id] = csBooks[id],
           MarketRow(id) \in DOMAIN csRows => /\ MarketRow(id) \in DOMAIN csRows'
                                              /\ csRows'[MarketRow(id)] = csRows[MarketRow(id)]
    PROVE  BooksFollow(csBooks'[id], csRows', id)
  BY DEF BooksFollow

LEMMA StoreRowKeeps ==
    ASSUME CatalogInv, NEW c \in CatalogCollectors, NEW kind \in RowKinds \ {"market"},
           csPoll[c].kind = kind, UpsertRow(csPoll[c]), Stored(c, csPoll[c]), csBooks' = csBooks,
           \A s \in csSnapshots' : s.kind \in {"entity", "live"} /\ s.value \in Values
    PROVE  CatalogInv'
  <1>1. CatalogShape /\ csTypeOK /\ kind # "none" BY DEF CatalogInv, CatalogShape, RowKinds
  <1>2. csPoll[c] # NoPoll BY <1>1, NoPollHasNoKind
  <1>3. PICK p \in CatalogPolls : p = csPoll[c] /\ p.at \in 0..csClock BY <1>1, <1>2, PollTyped
  <1>4. csTypeOK' BY <1>1, <1>3, RowsTyped DEF Stored
  <1>5. CatalogShape' BY <1>1, <1>4, StoredShape DEF CatalogShape
  <1>6. ASSUME ~csLate', NEW id \in CatalogIds PROVE BooksFollow(csBooks'[id], csRows', id)
    <2>1. ~csLate BY <1>6 DEF Stored
    <2>2. BooksFollow(csBooks[id], csRows, id) BY <2>1 DEF CatalogInv
    <2>3. MarketRow(id) # <<p.kind, p.id>> BY <1>3 DEF MarketRow
    <2>4. MarketRow(id) \in DOMAIN csRows => /\ MarketRow(id) \in DOMAIN csRows'
                                             /\ csRows'[MarketRow(id)] = csRows[MarketRow(id)]
      BY <1>1, <1>3, <2>3, RowUpserted
    <2> QED BY <2>2, <2>4, OthersFollow
  <1> QED BY <1>5, <1>6 DEF CatalogInv

\* The latest book of a list in the order of time is its last.
LEMMA LatestIsLast ==
    ASSUME NEW books \in Seq(Books), books # << >>,
           \A i, j \in DOMAIN books : i < j => books[i].at < books[j].at
    PROVE  LatestIndex(books) = Len(books)
  <1> DEFINE Latest(i) == \A j \in DOMAIN books :
                \/ books[i].at > books[j].at
                \/ books[i].at = books[j].at /\ i >= j
  <1>1. /\ Len(books) \in DOMAIN books /\ Len(books) \in Nat /\ DOMAIN books = 1..Len(books)
        /\ \A i \in DOMAIN books : books[i].at \in Int
    BY BooksTyped
  <1>2. Latest(Len(books))
    <2> TAKE j \in DOMAIN books
    <2>1. j = Len(books) \/ j < Len(books) BY <1>1
    <2> QED BY <1>1, <2>1
  <1>3. \A i \in DOMAIN books : Latest(i) => i = Len(books)
    <2> SUFFICES ASSUME NEW i \in DOMAIN books, Latest(i), i # Len(books) PROVE FALSE
      OBVIOUS
    <2>1. i < Len(books) BY <1>1
    <2> QED BY <1>1, <2>1
  <1>4. LatestIndex(books) = CHOOSE i \in DOMAIN books : Latest(i) BY DEF LatestIndex
  <1> HIDE DEF Latest
  <1> QED BY <1>1, <1>2, <1>3, <1>4

\* A book that is kept is the last; one that is not says what the last does.
LEMMA BookKept ==
    ASSUME NEW books \in Seq(Books), NEW p \in CatalogPolls,
           \A i, j \in DOMAIN books : i < j => books[i].at < books[j].at,
           books # << >> => books[Len(books)].at < p.at
    PROVE  LET kept == KeepBook(books, p)
           IN  /\ kept \in Seq(Books) /\ kept # << >>
               /\ \A i, j \in DOMAIN kept : i < j => kept[i].at < kept[j].at
               /\ kept[Len(kept)].at <= p.at
               /\ kept[Len(kept)].value = p.value
  <1>1. PICK book \in Books : book = [value |-> p.value, at |-> p.at] BY DEF Books, CatalogPolls
  <1>2. p.at \in Int /\ book.at = p.at /\ book.value = p.value BY <1>1 DEF CatalogPolls
  <1>3. Len(books) \in Nat /\ DOMAIN books = 1..Len(books) /\ \A i \in DOMAIN books : books[i].at \in Int
    BY BooksTyped
  <1>4. ASSUME books # << >> PROVE \A i \in DOMAIN books : books[i].at < p.at
    <2> TAKE i \in DOMAIN books
    <2>1. Len(books) \in DOMAIN books BY <1>3, <1>4
    <2>2. i = Len(books) \/ i < Len(books) BY <1>3
    <2> QED BY <1>2, <1>3, <1>4, <2>1, <2>2
  <1>5. book \notin ToSet(books)
    <2>1. \A i \in DOMAIN books : books[i] # book BY <1>2, <1>3, <1>4
    <2> QED BY <2>1 DEF ToSet
  <1>6. KeepBook(books, p) =
          IF books # << >> /\ books[LatestIndex(books)].value = p.value THEN books
          ELSE Append(books, book)
    BY <1>1, <1>5 DEF KeepBook
  <1>7. CASE books # << >> /\ books[LatestIndex(books)].value = p.value
    <2>1. KeepBook(books, p) = books BY <1>6, <1>7
    <2>2. LatestIndex(books) = Len(books) BY <1>7, LatestIsLast
    <2>3. Len(books) \in DOMAIN books BY <1>3, <1>7
    <2> QED BY <1>2, <1>3, <1>7, <2>1, <2>2, <2>3
  <1>8. CASE ~(books # << >> /\ books[LatestIndex(books)].value = p.value)
    <2>1. PICK kept \in Seq(Books) : kept = Append(books, book) BY AppendTyped
    <2>2. KeepBook(books, p) = kept BY <1>6, <1>8, <2>1
    <2>3. /\ Len(kept) = Len(books) + 1 /\ DOMAIN kept = 1..Len(books) + 1
          /\ kept[Len(kept)] = book
          /\ \A i \in DOMAIN books : kept[i] = books[i]
      BY <1>3, <2>1
    <2>4. \A i, j \in DOMAIN kept : i < j => kept[i].at < kept[j].at
      <3> SUFFICES ASSUME NEW i \in DOMAIN kept, NEW j \in DOMAIN kept, i < j
                   PROVE  kept[i].at < kept[j].at
        OBVIOUS
      <3>1. i \in DOMAIN books /\ kept[i] = books[i] /\ books # << >> BY <1>3, <2>3
      <3>2. CASE j = Len(kept) BY <1>2, <1>4, <2>3, <3>1, <3>2
      <3>3. CASE j # Len(kept)
        <4>1. j \in DOMAIN books /\ kept[j] = books[j] BY <1>3, <2>3, <3>3
        <4> QED BY <3>1, <4>1
      <3> QED BY <3>2, <3>3
    <2>5. kept # << >> /\ kept[Len(kept)].at <= p.at /\ kept[Len(kept)].value = p.value
      BY <1>2, <1>3, <2>3
    <2> QED BY <2>1, <2>2, <2>4, <2>5
  <1> QED BY <1>7, <1>8

LEMMA KeptIsTyped ==
    ASSUME NEW books \in Seq(Books), NEW p \in CatalogPolls
    PROVE  KeepBook(books, p) \in Seq(Books)
  <1>1. PICK book \in Books : book = [value |-> p.value, at |-> p.at] BY DEF Books, CatalogPolls
  <1>2. Append(books, book) \in Seq(Books) OBVIOUS
  <1>3. KeepBook(books, p) = books \/ KeepBook(books, p) = Append(books, book)
    BY <1>1 DEF KeepBook
  <1> QED BY <1>2, <1>3

LEMMA StoreMarketKeeps ==
    ASSUME CatalogInv, NEW c \in CatalogCollectors, upsert_external_markets(c)
    PROVE  CatalogInv'
  <1>1. /\ CatalogShape /\ csTypeOK /\ csPoll[c].kind = "market" /\ UpsertRow(csPoll[c])
        /\ csBooks' = [csBooks EXCEPT ![csPoll[c].id] = KeepBook(@, csPoll[c])]
        /\ csSnapshots' = csSnapshots /\ Stored(c, csPoll[c])
        /\ csBooks \in [CatalogIds -> Seq(Books)]
    BY DEF CatalogInv, CatalogShape, upsert_external_markets
  <1>2. csPoll[c] # NoPoll BY <1>1, NoPollHasNoKind
  <1>3. PICK p \in CatalogPolls : p = csPoll[c] /\ p.at \in 0..csClock BY <1>1, <1>2, PollTyped
  <1>4. p.id \in CatalogIds /\ p.kind = "market" /\ "market" \in RowKinds
    BY <1>1, <1>3 DEF CatalogPolls, RowKinds
  <1>5. csBooks[p.id] \in Seq(Books) /\ csBooks'[p.id] = KeepBook(csBooks[p.id], p)
    BY <1>1, <1>3, <1>4
  <1>6. csBooks' \in [CatalogIds -> Seq(Books)] BY <1>1, <1>3, <1>4, <1>5, KeptIsTyped
  <1>7. csTypeOK' BY <1>1, <1>3, <1>4, RowsTyped DEF Stored, csTypeOK
  <1>8. CatalogShape' BY <1>1, <1>6, <1>7, StoredShape
  <1>9. /\ DOMAIN csRows' = DOMAIN csRows \cup {MarketRow(p.id)}
        /\ \A key \in DOMAIN csRows : key # MarketRow(p.id) => csRows'[key] = csRows[key]
        /\ csRows'[MarketRow(p.id)].value = p.value /\ csRows'[MarketRow(p.id)].seen = p.at
    BY <1>1, <1>3, <1>4, RowUpserted DEF MarketRow
  <1>10. ASSUME ~csLate', NEW id \in CatalogIds PROVE BooksFollow(csBooks'[id], csRows', id)
    <2>1. ~csLate /\ \A key \in DOMAIN csRows :
                        key = MarketRow(p.id) => ~(csRows[key].seen >= p.at)
      BY <1>1, <1>3, <1>4, <1>10 DEF Stored, MarketRow
    <2>2. BooksFollow(csBooks[id], csRows, id) BY <2>1 DEF CatalogInv
    <2>3. CASE id # p.id
      <3>1. MarketRow(id) # MarketRow(p.id) BY <2>3 DEF MarketRow
      <3>2. csBooks'[id] = csBooks[id] BY <1>1, <1>3, <2>3
      <3> QED BY <1>9, <2>2, <3>1, <3>2, OthersFollow
    <2>4. CASE id = p.id
      <3>1. PICK books \in Seq(Books) : books = csBooks[id] BY <1>5, <2>4
      <3>2. \A i, j \in DOMAIN books : i < j => books[i].at < books[j].at
        BY <2>2, <3>1 DEF BooksFollow
      <3>3. books # << >> => books[Len(books)].at < p.at
        <4> HAVE books # << >>
        <4>1. /\ MarketRow(id) \in DOMAIN csRows
              /\ books[Len(books)].at <= csRows[MarketRow(id)].seen
          BY <2>2, <3>1 DEF BooksFollow
        <4>2. ~(csRows[MarketRow(id)].seen >= p.at) BY <2>1, <2>4, <4>1
        <4>3. csRows[MarketRow(id)].seen \in Int /\ p.at \in Int
          BY <1>1, <4>1 DEF csTypeOK, CatalogPolls
        <4>4. books[Len(books)].at \in Int
          <5>1. books # << >> OBVIOUS
          <5> QED BY <5>1, BooksTyped
        <4> QED BY <4>1, <4>2, <4>3, <4>4
      <3>4. PICK kept : kept = KeepBook(books, p) OBVIOUS
      <3>5. /\ kept # << >> /\ \A i, j \in DOMAIN kept : i < j => kept[i].at < kept[j].at
            /\ kept[Len(kept)].at <= p.at /\ kept[Len(kept)].value = p.value
        BY <3>2, <3>3, <3>4, BookKept
      <3>6. BooksFollow(kept, csRows', id) BY <1>9, <2>4, <3>5 DEF BooksFollow
      <3> QED BY <1>5, <2>4, <3>1, <3>4, <3>6
    <2> QED BY <2>3, <2>4
  <1> QED BY <1>8, <1>10 DEF CatalogInv

LEMMA NoSnapshotsChange ==
    ASSUME CatalogShape, csSnapshots' = csSnapshots
    PROVE  \A s \in csSnapshots' : s.kind \in {"entity", "live"} /\ s.value \in Values
  BY DEF CatalogShape, csTypeOK

LEMMA SnapshotInserted ==
    ASSUME CatalogShape, NEW p \in CatalogPolls, p.kind \in {"entity", "live"}, InsertSnapshot(p)
    PROVE  \A s \in csSnapshots' : s.kind \in {"entity", "live"} /\ s.value \in Values
  <1>1. PICK row : row = [kind |-> p.kind, id |-> p.id, value |-> p.value, at |-> p.at] OBVIOUS
  <1>2. row.kind = p.kind /\ row.value = p.value /\ p.value \in Values BY <1>1 DEF CatalogPolls
  <1>3. csSnapshots' = csSnapshots \/ csSnapshots' = csSnapshots \cup {row}
    BY <1>1 DEF InsertSnapshot
  <1>4. \A s \in csSnapshots : s.kind \in {"entity", "live"} /\ s.value \in Values
    BY DEF CatalogShape, csTypeOK
  <1> QED BY <1>2, <1>3, <1>4

LEMMA StoreEntityKeeps ==
    ASSUME CatalogInv, NEW c \in CatalogCollectors, upsert_entities(c)
    PROVE  CatalogInv'
  <1>1. /\ CatalogShape /\ csPoll[c].kind = "entity" /\ UpsertRow(csPoll[c])
        /\ InsertSnapshot(csPoll[c]) /\ csBooks' = csBooks /\ Stored(c, csPoll[c])
        /\ "entity" \in RowKinds \ {"market"}
    BY DEF CatalogInv, upsert_entities, RowKinds
  <1>2. csPoll[c] # NoPoll BY <1>1, NoPollHasNoKind
  <1>3. \A s \in csSnapshots' : s.kind \in {"entity", "live"} /\ s.value \in Values
    BY <1>1, <1>2, PollTyped, SnapshotInserted
  <1> QED BY <1>1, <1>3, StoreRowKeeps

LEMMA StoreLiveKeeps ==
    ASSUME CatalogInv, NEW c \in CatalogCollectors, upsert_live_snapshots(c)
    PROVE  CatalogInv'
  <1>1. /\ CatalogShape /\ csTypeOK /\ csPoll[c].kind = "live" /\ InsertSnapshot(csPoll[c])
        /\ csBooks' = csBooks /\ csRows' = csRows /\ Stored(c, csPoll[c])
        /\ csBooks \in [CatalogIds -> Seq(Books)]
    BY DEF CatalogInv, CatalogShape, upsert_live_snapshots
  <1>2. csPoll[c] # NoPoll BY <1>1, NoPollHasNoKind
  <1>3. \A s \in csSnapshots' : s.kind \in {"entity", "live"} /\ s.value \in Values
    BY <1>1, <1>2, PollTyped, SnapshotInserted
  <1>4. csTypeOK' BY <1>1, <1>3 DEF csTypeOK, Stored
  <1>5. CatalogShape' BY <1>1, <1>4, StoredShape
  <1>6. csLate' = FALSE => csLate = FALSE BY <1>1 DEF Stored, CatalogShape
  <1>7. csLate' \in BOOLEAN /\ csLate \in BOOLEAN BY <1>1, <1>5 DEF CatalogShape
  <1> QED BY <1>1, <1>5, <1>6, <1>7 DEF CatalogInv

LEMMA StoreCatalogKeeps ==
    ASSUME CatalogInv, NEW c \in CatalogCollectors, StoreCatalog(c)
    PROVE  CatalogInv'
  <1>1. CatalogShape BY DEF CatalogInv
  <1>2. ASSUME NEW kind \in {"sport", "milestone", "asset"}, StoreRow(c, kind) PROVE CatalogInv'
    <2>1. /\ csPoll[c].kind = kind /\ UpsertRow(csPoll[c]) /\ csSnapshots' = csSnapshots
          /\ csBooks' = csBooks /\ Stored(c, csPoll[c])
      BY <1>2 DEF StoreRow
    <2>2. kind \in RowKinds \ {"market"} BY DEF RowKinds
    <2> QED BY <1>1, <2>1, <2>2, NoSnapshotsChange, StoreRowKeeps
  <1>3. ASSUME StoreFails(c) PROVE CatalogInv'
    <2>1. csPoll' = [csPoll EXCEPT ![c] = NoPoll]
          /\ UNCHANGED <<csClock, csRows, csSnapshots, csBooks, csStores, csLate>>
      BY <1>3 DEF StoreFails
    <2>2. csTypeOK' BY <1>1, <2>1 DEF CatalogShape, csTypeOK
    <2>3. /\ csPoll' \in [CatalogCollectors -> CatalogPolls \cup {NoPoll}]
          /\ \A d \in CatalogCollectors : csPoll'[d] # NoPoll => csPoll'[d] = csPoll[d]
      BY <1>1, <2>1 DEF CatalogShape
    <2>4. CatalogShape' BY <1>1, <2>1, <2>2, <2>3 DEF CatalogShape
    <2> QED BY <2>1, <2>4 DEF CatalogInv
  <1>4. CASE upsert_sports(c) BY <1>2, <1>4 DEF upsert_sports
  <1>5. CASE upsert_milestones(c) BY <1>2, <1>5 DEF upsert_milestones
  <1>6. CASE upsert_assets(c) BY <1>2, <1>6 DEF upsert_assets
  <1> QED
    BY <1>3, <1>4, <1>5, <1>6, StoreEntityKeeps, StoreLiveKeeps, StoreMarketKeeps DEF StoreCatalog

LEMMA FetchKeeps ==
    ASSUME CatalogInv, NEW c \in CatalogCollectors, NEW kind \in RowKinds \cup {"live"},
           NEW id \in CatalogIds, NEW value \in Values, NEW start \in GameStarts,
           FetchCatalog(c, kind, id, value, start)
    PROVE  CatalogInv'
  <1>1. PICK p : p = [kind |-> kind, id |-> id, value |-> value, start |-> start, at |-> csClock]
    OBVIOUS
  <1>2. CatalogShape /\ csTypeOK /\ csClock \in 0..MaxCatalogClock /\ csStores \in 0..MaxStores
    BY DEF CatalogInv, CatalogShape, csTypeOK
  <1>3. MaxCatalogClock \in Nat /\ MaxStores \in Nat BY CatalogStoreAssumption
  <1>4. p \in CatalogPolls /\ p.at = csClock /\ p.at \in 0..csClock
    BY <1>1, <1>2, <1>3 DEF CatalogPolls
  <1>5. /\ csPoll' = [csPoll EXCEPT ![c] = p] /\ csStores' = csStores + 1
        /\ csStores < MaxStores /\ UNCHANGED <<csClock, csRows, csSnapshots, csBooks, csLate>>
    BY <1>1 DEF FetchCatalog
  <1>6. csStores' \in 0..MaxStores BY <1>2, <1>3, <1>5
  <1>7. csTypeOK' BY <1>2, <1>5, <1>6 DEF csTypeOK
  <1>8. /\ csPoll' \in [CatalogCollectors -> CatalogPolls \cup {NoPoll}]
        /\ \A d \in CatalogCollectors : csPoll'[d] = p \/ csPoll'[d] = csPoll[d]
    BY <1>2, <1>4, <1>5 DEF CatalogShape
  <1>9. CatalogShape' BY <1>2, <1>4, <1>5, <1>7, <1>8 DEF CatalogShape
  <1> QED BY <1>5, <1>9 DEF CatalogInv

LEMMA CatalogTickKeeps == ASSUME CatalogInv, CatalogTick PROVE CatalogInv'
  <1>1. /\ CatalogShape /\ csTypeOK /\ csClock \in 0..MaxCatalogClock /\ csClock < MaxCatalogClock
        /\ csClock' = csClock + 1 /\ MaxCatalogClock \in Nat
        /\ UNCHANGED <<csPoll, csRows, csSnapshots, csBooks, csStores, csLate>>
    BY CatalogStoreAssumption DEF CatalogInv, CatalogShape, csTypeOK, CatalogTick
  <1>2. csClock' \in 0..MaxCatalogClock /\ \A t \in 0..csClock : t \in 0..csClock' BY <1>1
  <1>3. csTypeOK' BY <1>1, <1>2 DEF csTypeOK
  <1>4. CatalogShape' BY <1>1, <1>2, <1>3 DEF CatalogShape
  <1> QED BY <1>1, <1>4 DEF CatalogInv

LEMMA CatalogStays ==
    ASSUME CatalogInv, UNCHANGED <<csClock, csPoll, csRows, csSnapshots, csBooks, csStores, csLate>>
    PROVE  CatalogInv'
  <1>1. csTypeOK' BY DEF CatalogInv, CatalogShape, csTypeOK
  <1>2. CatalogShape' BY <1>1 DEF CatalogInv, CatalogShape
  <1> QED BY <1>2 DEF CatalogInv

LEMMA CatalogStep == ASSUME CatalogInv, csNext PROVE CatalogInv'
  <1>1. schedule_pregame_refreshes =>
          UNCHANGED <<csClock, csPoll, csRows, csSnapshots, csBooks, csStores, csLate>>
    BY DEF schedule_pregame_refreshes
  <1> QED BY <1>1, CatalogTickKeeps, FetchKeeps, StoreCatalogKeeps, CatalogStays DEF csNext

\* The steps of MCOperations are steps of the catalog or leave it alone.
LEMMA CatalogFrame == ASSUME [Next]_vars PROVE csNext \/ UNCHANGED csVars
  <1>1. ASSUME CatalogFocus PROVE csNext
    <2>1. ASSUME NEW c \in CatalogCollectors,
                 NEW kind \in IF Only("catalog", "books") THEN {"market"}
                              ELSE {"sport", "milestone", "asset", "entity", "live"},
                 NEW id \in {i \in CatalogIds : \/ Only("catalog", "books")
                                                \/ \A j \in CatalogIds : i <= j},
                 NEW value \in Values \ IF Only("catalog", "books") THEN {} ELSE {"closed"},
                 NEW start \in GameStarts, FetchCatalog(c, kind, id, value, start)
          PROVE  csNext
      <3>1. kind \in RowKinds \cup {"live"} BY DEF RowKinds
      <3> QED BY <2>1, <3>1 DEF csNext
    <2> QED BY <1>1, <2>1 DEF CatalogFocus, csNext
  <1> QED BY <1>1 DEF Next, vars

LEMMA CatalogIsInductive == Spec => []CatalogInv
  <1>1. Init => CatalogInv BY CatalogStarts DEF Init
  <1>2. CatalogInv /\ [Next]_vars => CatalogInv'
    BY CatalogFrame, CatalogStep, CatalogStays DEF csVars
  <1> QED BY <1>1, <1>2, PTL DEF Spec

LEMMA BooksAreCurrent == ASSUME CatalogInv PROVE ListedBooksAreCurrent
  <1> SUFFICES ASSUME ~csLate, NEW id \in ListedMarkets
               PROVE  LatestBook(id).value = csRows[<<"market", id>>].value
    BY DEF ListedBooksAreCurrent
  <1>1. id \in CatalogIds /\ csBooks[id] # << >> BY DEF ListedMarkets, OpenMarkets
  <1>2. PICK books \in Seq(Books) : books = csBooks[id] BY <1>1 DEF CatalogInv, CatalogShape
  <1>3. BooksFollow(books, csRows, id) BY <1>1, <1>2 DEF CatalogInv
  <1>4. LatestIndex(books) = Len(books) BY <1>1, <1>2, <1>3, LatestIsLast DEF BooksFollow
  <1> QED BY <1>1, <1>2, <1>3, <1>4 DEF BooksFollow, LatestBook, MarketRow

\* next_offset, for n entries in pages of size
PageEnd(o, n, size) == AtMost(o + size, n)
NextOffset(o, n, size) ==
    IF PageEnd(o, n, size) < n /\ PageEnd(o, n, size) > o THEN PageEnd(o, n, size) ELSE 0

\* The smallest set of offsets with 0 and with the next offset of each of its own.
FollowedFrom0(n, size) ==
    {o \in 0..n : \A asked \in SUBSET (0..n) :
        /\ 0 \in asked
        /\ \A q \in asked : NextOffset(q, n, size) \in asked
        => o \in asked}

LEMMA PageEndTyped ==
    ASSUME NEW n \in Nat, NEW size \in Nat \ {0}, NEW o \in 0..n
    PROVE  /\ PageEnd(o, n, size) \in o..n /\ NextOffset(o, n, size) \in 0..n
           /\ PageEnd(o, n, size) <= o + size
           /\ o < n => PageEnd(o, n, size) > o
           /\ PageEnd(o, n, size) < n => PageEnd(o, n, size) = o + size
  BY DEF PageEnd, NextOffset, AtMost

LEMMA FollowedIsClosed ==
    ASSUME NEW n \in Nat, NEW size \in Nat \ {0}
    PROVE  /\ 0 \in FollowedFrom0(n, size)
           /\ \A o \in FollowedFrom0(n, size) : NextOffset(o, n, size) \in FollowedFrom0(n, size)
  <1> DEFINE Asked(asked) == 0 \in asked /\ \A q \in asked : NextOffset(q, n, size) \in asked
  <1>1. \A o : o \in FollowedFrom0(n, size) <=>
                 o \in 0..n /\ \A asked \in SUBSET (0..n) : Asked(asked) => o \in asked
    BY Zenon DEF FollowedFrom0
  <1>2. 0 \in 0..n /\ \A q \in 0..n : NextOffset(q, n, size) \in 0..n BY PageEndTyped
  <1>3. 0 \in FollowedFrom0(n, size) BY <1>1, <1>2
  <1>4. ASSUME NEW o \in FollowedFrom0(n, size)
        PROVE  NextOffset(o, n, size) \in FollowedFrom0(n, size)
    <2>1. \A asked \in SUBSET (0..n) : Asked(asked) => o \in asked BY <1>1
    <2>2. \A asked \in SUBSET (0..n) : Asked(asked) => NextOffset(o, n, size) \in asked
      BY <2>1
    <2> QED BY <1>1, <1>2, <2>2
  <1> QED BY <1>3, <1>4

LEMMA MultiplesApart ==
    ASSUME NEW k \in Nat, NEW l \in Nat, NEW size \in Nat, k < l
    PROVE  k * size + size <= l * size
  <1>1. PICK m \in Nat : l = k + 1 + m
    <2>1. l - k - 1 \in Nat /\ l = k + 1 + (l - k - 1) OBVIOUS
    <2> QED BY <2>1
  <1>2. l * size = k * size + size + m * size BY <1>1
  <1>3. m * size \in Nat /\ k * size \in Nat /\ l * size \in Nat OBVIOUS
  <1> QED BY <1>2, <1>3

\* The offsets followed are multiples of the page's size.
LEMMA FollowedAreMultiples ==
    ASSUME NEW n \in Nat, NEW size \in Nat \ {0}, NEW o \in FollowedFrom0(n, size)
    PROVE  \E k \in Nat : o = k * size
  <1> DEFINE M == {q \in 0..n : \E k \in Nat : q = k * size}
  <1>1. 0 \in M
    <2>1. 0 = 0 * size /\ 0 \in 0..n OBVIOUS
    <2> QED BY <2>1
  <1>2. ASSUME NEW q \in M PROVE NextOffset(q, n, size) \in M
    <2>1. PICK k \in Nat : q = k * size OBVIOUS
    <2>2. CASE NextOffset(q, n, size) = 0 BY <1>1, <2>2
    <2>3. CASE NextOffset(q, n, size) # 0
      <3>1. NextOffset(q, n, size) = q + size /\ NextOffset(q, n, size) \in 0..n
        BY <2>3, PageEndTyped DEF NextOffset
      <3>2. q + size = (k + 1) * size /\ k + 1 \in Nat BY <2>1
      <3>3. \E l \in Nat : NextOffset(q, n, size) = l * size BY <3>1, <3>2
      <3> QED BY <3>1, <3>3
    <2> QED BY <2>2, <2>3
  <1>3. M \in SUBSET (0..n) OBVIOUS
  <1>4. o \in M
    <2> HIDE DEF M
    <2> QED BY <1>1, <1>2, <1>3 DEF FollowedFrom0
  <1> QED BY <1>4

\* Every entry is on one page of those followed.
LEMMA OnePageHasIt ==
    ASSUME NEW n \in Nat, NEW size \in Nat \ {0}, NEW r \in 1..n
    PROVE  \E o \in FollowedFrom0(n, size) : \A q \in FollowedFrom0(n, size) :
              r \in q + 1..PageEnd(q, n, size) <=> q = o
  <1> DEFINE F == FollowedFrom0(n, size)
  <1>1. F \subseteq 0..n BY DEF FollowedFrom0
  <1>2. \E o \in F : r \in o + 1..PageEnd(o, n, size)
    <2> SUFFICES ASSUME \A o \in F : r \notin o + 1..PageEnd(o, n, size) PROVE FALSE
      OBVIOUS
    <2> DEFINE T == {m \in Nat : \E o \in F : o < r /\ m = n - o}
    <2>1. T # {}
      <3>1. 0 \in F /\ 0 < r BY FollowedIsClosed
      <3> QED BY <3>1
    <2>2. PICK m \in T : \A k \in T : m <= k
      <3>1. T \in SUBSET Nat OBVIOUS
      <3> HIDE DEF T
      <3> QED BY <2>1, <3>1, LeastNatural
    <2>3. PICK o \in F : o < r /\ m = n - o OBVIOUS
    <2>4. o \in 0..n /\ o < n BY <1>1, <2>3
    <2> DEFINE e == PageEnd(o, n, size)
    <2>5. e \in o..n /\ e > o BY <2>4, PageEndTyped
    <2>6. e < r /\ e < n
      <3>1. r \notin o + 1..e BY <2>3
      <3> HIDE DEF e
      <3> QED BY <2>3, <2>4, <2>5, <3>1
    <2>7. NextOffset(o, n, size) = e BY <2>5, <2>6 DEF NextOffset
    <2>8. e \in F BY <2>3, <2>7, FollowedIsClosed
    <2> HIDE DEF e, F
    <2>9. n - e \in T BY <2>4, <2>5, <2>6, <2>8
    <2>10. m <= n - e BY <2>2, <2>9
    <2> QED BY <2>3, <2>4, <2>5, <2>10
  <1>3. PICK o \in F : r \in o + 1..PageEnd(o, n, size) BY <1>2
  <1>4. ASSUME NEW a \in F, NEW b \in F, a < b, r \in a + 1..PageEnd(a, n, size),
               r \in b + 1..PageEnd(b, n, size)
        PROVE  FALSE
    <2>1. PICK k \in Nat : a = k * size BY FollowedAreMultiples
    <2>2. PICK l \in Nat : b = l * size BY FollowedAreMultiples
    <2>3. k < l
      <3> SUFFICES ASSUME l <= k PROVE FALSE OBVIOUS
      <3>1. l = k \/ l < k OBVIOUS
      <3>2. l < k => l * size + size <= k * size BY MultiplesApart
      <3>3. k * size \in Nat /\ l * size \in Nat OBVIOUS
      <3> QED BY <1>4, <2>1, <2>2, <3>1, <3>2, <3>3
    <2>4. a + size <= b BY <2>1, <2>2, <2>3, MultiplesApart
    <2>5. PageEnd(a, n, size) <= a + size /\ PageEnd(a, n, size) \in a..n
          /\ PageEnd(b, n, size) \in b..n /\ a \in 0..n /\ b \in 0..n
      BY <1>1, PageEndTyped
    <2> QED BY <1>4, <2>4, <2>5
  <1>5. ASSUME NEW q \in F, r \in q + 1..PageEnd(q, n, size) PROVE q = o
    <2>1. q \in Int /\ o \in Int BY <1>1
    <2>2. q < o \/ o < q \/ q = o BY <2>1
    <2> QED BY <1>3, <1>4, <1>5, <2>2
  <1> QED BY <1>3, <1>5

\* The place of an entry of a finite set among those up to it.
LEMMA PlaceTyped ==
    ASSUME NEW ids \in SUBSET Nat, IsFiniteSet(ids), NEW id \in ids
    PROVE  /\ Cardinality(ids) \in Nat
           /\ Cardinality({i \in ids : i <= id}) \in 1..Cardinality(ids)
  <1> DEFINE upto == {i \in ids : i <= id}
  <1>1. upto \subseteq ids /\ id \in upto OBVIOUS
  <1>2. IsFiniteSet(upto) /\ Cardinality(upto) <= Cardinality(ids) BY <1>1, FS_Subset
  <1>3. Cardinality(upto) \in Nat /\ Cardinality(ids) \in Nat BY <1>2, FS_CardinalityType
  <1>4. Cardinality(upto) # 0 BY <1>1, <1>2, FS_EmptySet
  <1> QED BY <1>2, <1>3, <1>4

LEMMA EveryMarketIsOnAPage == PagesCover
  <1> SUFFICES ASSUME NEW limit \in PageSizes, NEW id \in ListedMarkets
               PROVE  \E o \in Followed(limit) : \A q \in Followed(limit) :
                          id \in list_external_markets(limit, q).items <=> q = o
    BY DEF PagesCover
  <1>1. ListedMarkets \in SUBSET Nat /\ IsFiniteSet(ListedMarkets)
    <2>1. ListedMarkets \subseteq CatalogIds BY DEF ListedMarkets, OpenMarkets
    <2> QED BY <2>1, FS_Subset, CatalogStoreAssumption
  <1>2. PICK n \in Nat : n = Cardinality(ListedMarkets) BY <1>1, FS_CardinalityType
  <1>3. PICK size \in Nat \ {0} : size = PageSize(limit)
    <2>1. limit \in Nat /\ MaxPageSize \in Nat \ {0} BY CatalogStoreAssumption
    <2> QED BY <2>1 DEF PageSize, AtMost
  <1>4. PICK r \in 1..n : r = Cardinality({i \in ListedMarkets : i <= id})
    BY <1>1, <1>2, PlaceTyped
  <1>5. ASSUME NEW q \in 0..n
        PROVE  /\ id \in list_external_markets(limit, q).items <=> r \in q + 1..PageEnd(q, n, size)
               /\ list_external_markets(limit, q).next = NextOffset(q, n, size)
    BY <1>2, <1>3, <1>4 DEF list_external_markets, Page, PageEnd, NextOffset
  <1>6. \A o : o \in Followed(limit) <=> o \in FollowedFrom0(n, size)
    <2>1. \A asked \in SUBSET (0..n) :
            (\A q \in asked : list_external_markets(limit, q).next \in asked)
              <=> (\A q \in asked : NextOffset(q, n, size) \in asked)
      BY <1>5
    <2>2. Followed(limit) =
            {o \in 0..n : \A asked \in SUBSET (0..n) :
                /\ 0 \in asked
                /\ \A q \in asked : list_external_markets(limit, q).next \in asked
                => o \in asked}
      BY <1>2 DEF Followed
    <2> DEFINE Follows(asked) == \A q \in asked : NextOffset(q, n, size) \in asked
               Listed(asked) == \A q \in asked : list_external_markets(limit, q).next \in asked
    <2>3. \A o : o \in Followed(limit) <=>
            o \in 0..n /\ \A asked \in SUBSET (0..n) : 0 \in asked /\ Listed(asked) => o \in asked
      BY <2>2, Zenon
    <2>4. \A o : o \in FollowedFrom0(n, size) <=>
            o \in 0..n /\ \A asked \in SUBSET (0..n) : 0 \in asked /\ Follows(asked) => o \in asked
      BY Zenon DEF FollowedFrom0
    <2>5. \A asked \in SUBSET (0..n) : Listed(asked) <=> Follows(asked) BY <2>1
    <2> HIDE DEF Follows, Listed
    <2> QED BY <2>3, <2>4, <2>5
  <1>7. \A o \in FollowedFrom0(n, size) : o \in 0..n BY DEF FollowedFrom0
  <1>8. PICK o \in FollowedFrom0(n, size) : \A q \in FollowedFrom0(n, size) :
              r \in q + 1..PageEnd(q, n, size) <=> q = o
    BY OnePageHasIt
  <1> QED BY <1>5, <1>6, <1>7, <1>8

----------------------------------------------------------------------------
(* MarketSnapshots: the loop of persist_kalshi_snapshot over the markets. *)

BatchCounts == [received : Nat, accepted : Nat, rejected : Nat, duplicated : Nat]
Reasons == {"", "missing_market_ticker", "missing_event_ticker", "invalid_yes_bid",
            "invalid_yes_ask", "invalid_yes_spread"}
Rejections == Nat \X Reasons
Observed(observed, i) == {o \in observed : o.payload = i}
RejectedOf(rejected, i) == {k \in DOMAIN rejected : rejected[k][1] = i}

HasParts(s) == {"core", "observed", "rejected", "counts"} \subseteq DOMAIN s

\* What the loop has gathered after n markets of payload p, for the batch id.
Gathered(s, n, p, id) ==
    /\ HasParts(s)
    /\ s.counts \in BatchCounts /\ s.counts.received = Len(p.markets)
    /\ s.counts.accepted + s.counts.rejected + s.counts.duplicated = n
    /\ IsFiniteSet(s.observed)
    /\ \A o : o \in s.observed /\ o.payload # id <=> o \in msObserved
    /\ s.counts.accepted = Cardinality(Observed(s.observed, id))
    /\ s.rejected \in Seq(Rejections)
    /\ Len(s.rejected) = Len(msRejected) + s.counts.rejected
    /\ \A k \in 1..Len(msRejected) : s.rejected[k] = msRejected[k]
    /\ \A k \in Len(msRejected) + 1..Len(s.rejected) : s.rejected[k][1] = id

\* The batch of a transaction that is open has left nothing yet.
NothingOf(id) ==
    /\ IsFiniteSet(msObserved) /\ \A o \in msObserved : o.payload # id
    /\ msRejected \in Seq(Rejections)

LEMMA NothingGathered ==
    ASSUME NEW p \in Snapshots, NEW id \in Nat, NothingOf(id)
    PROVE  Gathered(NoneUpserted(p), 0, p, id)
  <1>1. PICK c : c = [received |-> Len(p.markets), accepted |-> 0, rejected |-> 0,
                      duplicated |-> 0]
    OBVIOUS
  <1>2. Len(p.markets) \in Nat BY SnapshotAssumption
  <1>3. /\ c \in BatchCounts /\ c.received = Len(p.markets) /\ c.accepted = 0
        /\ c.rejected = 0 /\ c.duplicated = 0
    BY <1>1, <1>2 DEF BatchCounts
  <1>4. PICK s : s = NoneUpserted(p) OBVIOUS
  <1>5. s = [core |-> msCore, observed |-> msObserved, rejected |-> msRejected, counts |-> c]
    BY <1>1, <1>4 DEF NoneUpserted
  <1>6. HasParts(s) /\ s.observed = msObserved /\ s.rejected = msRejected /\ s.counts = c
    BY <1>5 DEF HasParts
  <1>7. Cardinality(Observed(msObserved, id)) = 0
    <2>1. Observed(msObserved, id) = {} BY DEF Observed, NothingOf
    <2> QED BY <2>1, FS_EmptySet
  <1>8. Len(msRejected) \in Nat BY DEF NothingOf
  <1> QED BY <1>3, <1>4, <1>5, <1>6, <1>7, <1>8 DEF Gathered, NothingOf

LEMMA ReasonsTyped == ASSUME NEW m PROVE Unnamed(m) \in Reasons /\ Unpriced(m) \in Reasons
  BY DEF Unnamed, Unpriced, Reasons

\* One market is rejected, known already, or observed.
UpsertedAs(s, r, id) ==
    /\ HasParts(r)
    /\ \/ \E error \in Reasons : /\ r.rejected = Append(s.rejected, <<id, error>>)
                                 /\ r.counts = [s.counts EXCEPT !.rejected = @ + 1]
                                 /\ r.observed = s.observed
       \/ /\ r.observed = s.observed /\ r.rejected = s.rejected
          /\ r.counts = [s.counts EXCEPT !.duplicated = @ + 1]
       \/ \E row : /\ row.payload = id /\ row \notin s.observed
                   /\ r.observed = s.observed \cup {row} /\ r.rejected = s.rejected
                   /\ r.counts = [s.counts EXCEPT !.accepted = @ + 1]

LEMMA UpsertTakesAWay ==
    ASSUME NEW s, HasParts(s), NEW m, NEW id
    PROVE  UpsertedAs(s, _upsert_market(s, m, id), id)
  <1>1. PICK error \in Reasons : error = IF Unnamed(m) # "" THEN Unnamed(m) ELSE Unpriced(m)
    BY ReasonsTyped
  <1>2. PICK written : written =
          IF Unnamed(m) # "" THEN s.core
          ELSE UpsertCore(UpsertCore(UpsertCore(s.core, <<"series", m.event>>, m, id),
                            <<"event", m.event>>, m, id), <<"market", m.ticker>>, m, id)
    OBVIOUS
  <1>3. PICK row : row = [market |-> m.ticker, at |-> m.at, payload |-> id, bid |-> m.bid,
                          ask |-> m.ask]
    OBVIOUS
  <1>4. row.market = m.ticker /\ row.at = m.at /\ row.payload = id BY <1>3
  <1> DEFINE known == \E o \in s.observed : o.market = m.ticker /\ o.at = m.at /\ o.payload = id
  <1>5. ~known => row \notin s.observed BY <1>4
  <1>6. PICK r : r = _upsert_market(s, m, id) OBVIOUS
  <1>7. r = IF error # ""
            THEN [s EXCEPT !.core = written, !.rejected = Append(@, <<id, error>>),
                           !.counts.rejected = @ + 1]
            ELSE IF known THEN [s EXCEPT !.core = written, !.counts.duplicated = @ + 1]
            ELSE [s EXCEPT !.core = written, !.observed = @ \cup {row},
                           !.counts.accepted = @ + 1]
    BY <1>1, <1>2, <1>3, <1>6 DEF _upsert_market
  <1> HIDE DEF known
  <1>8. CASE error # ""
    <2>1. r = [s EXCEPT !.core = written, !.rejected = Append(@, <<id, error>>),
                        !.counts.rejected = @ + 1]
      BY <1>7, <1>8
    <2>2. /\ HasParts(r) /\ r.observed = s.observed
          /\ r.rejected = Append(s.rejected, <<id, error>>)
          /\ r.counts = [s.counts EXCEPT !.rejected = @ + 1]
      BY <2>1 DEF HasParts
    <2> QED BY <1>6, <2>2 DEF UpsertedAs
  <1>9. CASE error = "" /\ known
    <2>1. r = [s EXCEPT !.core = written, !.counts.duplicated = @ + 1] BY <1>7, <1>9
    <2>2. /\ HasParts(r) /\ r.observed = s.observed /\ r.rejected = s.rejected
          /\ r.counts = [s.counts EXCEPT !.duplicated = @ + 1]
      BY <2>1 DEF HasParts
    <2> QED BY <1>6, <2>2 DEF UpsertedAs
  <1>10. CASE error = "" /\ ~known
    <2>1. r = [s EXCEPT !.core = written, !.observed = @ \cup {row}, !.counts.accepted = @ + 1]
      BY <1>7, <1>10
    <2>2. /\ HasParts(r) /\ r.observed = s.observed \cup {row} /\ r.rejected = s.rejected
          /\ r.counts = [s.counts EXCEPT !.accepted = @ + 1]
      BY <2>1 DEF HasParts
    <2>3. row.payload = id /\ row \notin s.observed BY <1>4, <1>5, <1>10
    <2> QED BY <1>6, <2>2, <2>3 DEF UpsertedAs
  <1> QED BY <1>8, <1>9, <1>10

LEMMA GatheredGrows ==
    ASSUME NEW s, NEW r, NEW n \in Nat, NEW p \in Snapshots, NEW id \in Nat,
           NothingOf(id), Gathered(s, n, p, id), UpsertedAs(s, r, id)
    PROVE  Gathered(r, n + 1, p, id)
  <1>1. PICK c \in BatchCounts : c = s.counts BY DEF Gathered
  <1>2. /\ c.received \in Nat /\ c.accepted \in Nat /\ c.rejected \in Nat /\ c.duplicated \in Nat
        /\ c.received = Len(p.markets)
        /\ c.accepted + c.rejected + c.duplicated = n
    BY <1>1 DEF BatchCounts, Gathered
  <1>3. PICK k \in Nat : k = Len(msRejected) BY DEF NothingOf
  <1>4. /\ s.rejected \in Seq(Rejections) /\ Len(s.rejected) = k + c.rejected
        /\ \A i \in 1..k : s.rejected[i] = msRejected[i]
        /\ \A i \in k + 1..Len(s.rejected) : s.rejected[i][1] = id
    BY <1>1, <1>3 DEF Gathered
  <1>5. /\ IsFiniteSet(s.observed) /\ c.accepted = Cardinality(Observed(s.observed, id))
        /\ \A o : o \in s.observed /\ o.payload # id <=> o \in msObserved
    BY <1>1 DEF Gathered
  <1>6. PICK d : d = r.counts OBVIOUS
  <1>7. HasParts(r) BY DEF UpsertedAs
  <1>8. ASSUME NEW error \in Reasons, r.rejected = Append(s.rejected, <<id, error>>),
               d = [c EXCEPT !.rejected = @ + 1], r.observed = s.observed
        PROVE  Gathered(r, n + 1, p, id)
    <2>1. /\ d \in BatchCounts /\ d.received = c.received /\ d.accepted = c.accepted
          /\ d.rejected = c.rejected + 1 /\ d.duplicated = c.duplicated
      BY <1>8 DEF BatchCounts
    <2>2. PICK q : q = r.rejected OBVIOUS
    <2>3. PICK e \in Rejections : e = <<id, error>> /\ e[1] = id
      <3>1. <<id, error>> \in Rejections BY <1>8 DEF Rejections
      <3> QED BY <3>1
    <2>4. /\ q \in Seq(Rejections) /\ Len(q) = Len(s.rejected) + 1
          /\ q[Len(s.rejected) + 1] = e
          /\ \A i \in 1..Len(s.rejected) : q[i] = s.rejected[i]
      BY <1>4, <1>8, <2>2, <2>3, AppendTyped
    <2>5. Len(q) = k + d.rejected BY <1>2, <1>3, <1>4, <2>1, <2>4
    <2>6. \A i \in 1..k : q[i] = msRejected[i] BY <1>2, <1>3, <1>4, <2>4
    <2>7. \A i \in k + 1..Len(q) : q[i][1] = id
      <3> TAKE i \in k + 1..Len(q)
      <3>1. i = Len(s.rejected) + 1 \/ i \in k + 1..Len(s.rejected)
        BY <1>2, <1>3, <1>4, <2>4
      <3>2. i \in k + 1..Len(s.rejected) => q[i] = s.rejected[i]
        BY <1>2, <1>3, <1>4, <2>4
      <3> QED BY <1>4, <2>3, <2>4, <3>1, <3>2
    <2>8. d.accepted + d.rejected + d.duplicated = n + 1 BY <1>2, <2>1
    <2> QED
      BY <1>2, <1>3, <1>5, <1>6, <1>7, <1>8, <2>1, <2>2, <2>4, <2>5, <2>6, <2>7, <2>8 DEF Gathered
  <1>9. ASSUME d = [c EXCEPT !.duplicated = @ + 1], r.observed = s.observed,
               r.rejected = s.rejected
        PROVE  Gathered(r, n + 1, p, id)
    <2>1. /\ d \in BatchCounts /\ d.received = c.received /\ d.accepted = c.accepted
          /\ d.rejected = c.rejected /\ d.duplicated = c.duplicated + 1
      BY <1>9 DEF BatchCounts
    <2>2. d.accepted + d.rejected + d.duplicated = n + 1 BY <1>2, <2>1
    <2> QED BY <1>2, <1>3, <1>4, <1>5, <1>6, <1>7, <1>9, <2>1, <2>2 DEF Gathered
  <1>10. ASSUME NEW row, row.payload = id, row \notin s.observed,
                r.observed = s.observed \cup {row}, r.rejected = s.rejected,
                d = [c EXCEPT !.accepted = @ + 1]
         PROVE  Gathered(r, n + 1, p, id)
    <2>1. /\ d \in BatchCounts /\ d.received = c.received /\ d.accepted = c.accepted + 1
          /\ d.rejected = c.rejected /\ d.duplicated = c.duplicated
      BY <1>10 DEF BatchCounts
    <2>2. d.accepted + d.rejected + d.duplicated = n + 1 BY <1>2, <2>1
    <2>3. IsFiniteSet(r.observed) BY <1>5, <1>10, FS_AddElement
    <2>4. \A o : o \in r.observed /\ o.payload # id <=> o \in msObserved
      BY <1>5, <1>10
    <2>5. d.accepted = Cardinality(Observed(r.observed, id))
      <3>1. Observed(r.observed, id) = Observed(s.observed, id) \cup {row}
        BY <1>10 DEF Observed
      <3>2. PICK T : T = Observed(s.observed, id) OBVIOUS
      <3>3. T \subseteq s.observed /\ row \notin T BY <1>10, <3>2 DEF Observed
      <3>4. IsFiniteSet(T) BY <1>5, <3>3, FS_Subset
      <3>5. c.accepted = Cardinality(T) BY <1>5, <3>2
      <3>6. Observed(r.observed, id) = T \cup {row} BY <3>1, <3>2
      <3>7. Cardinality(T \cup {row}) = Cardinality(T) + 1 BY <3>3, <3>4, FS_AddElement
      <3> QED BY <2>1, <3>5, <3>6, <3>7
    <2> QED
      BY <1>2, <1>3, <1>4, <1>6, <1>7, <1>10, <2>1, <2>2, <2>3, <2>4, <2>5 DEF Gathered
  <1> QED BY <1>1, <1>6, <1>8, <1>9, <1>10 DEF UpsertedAs

\* The loop over the markets has a value after each of them, and gathers all of them.
LEMMA LoopHasValues ==
    ASSUME NEW p \in Snapshots, NEW id
    PROVE  \E f : /\ UpsertMarkets(p, id) = f[Len(p.markets)]
                  /\ f = [n \in 0..Len(p.markets) |->
                            IF n = 0 THEN NoneUpserted(p)
                            ELSE _upsert_market(f[n - 1], p.markets[n], id)]
  <1> DEFINE Step(s, n) == _upsert_market(s, p.markets[n], id)
             base == NoneUpserted(p)
             Is(f, n) == f = [k \in 0..n |-> IF k = 0 THEN base ELSE Step(f[k - 1], k)]
             many == Len(p.markets)
  <1>1. many \in Nat BY SnapshotAssumption
  <1>2. UpsertMarkets(p, id) = (CHOOSE f : Is(f, many))[many] BY Zenon DEF UpsertMarkets
  <1> HIDE DEF Step, base, many
  <1>3. \E f : Is(f, many)
    <2> SUFFICES ASSUME ~\E f : Is(f, many) PROVE FALSE OBVIOUS
    <2> DEFINE None == {n \in Nat : ~\E f : Is(f, n)}
    <2>1. PICK n \in None : \A m \in None : n <= m
      <3>1. None \in SUBSET Nat /\ many \in None BY <1>1
      <3> HIDE DEF None
      <3> QED BY <3>1, LeastNatural
    <2>2. n # 0
      <3>1. PICK g : g = [k \in 0..0 |-> base] OBVIOUS
      <3>2. \A k \in 0..0 : g[k] = IF k = 0 THEN base ELSE Step(g[k - 1], k) BY <3>1
      <3>3. g = [k \in 0..0 |-> g[k]] BY <3>1
      <3>4. Is(g, 0) BY <3>2, <3>3
      <3> QED BY <2>1, <3>4
    <2>3. n - 1 \in Nat /\ n - 1 \notin None
      <3>1. n \in Nat BY <2>1
      <3>2. n - 1 \in Nat /\ ~(n <= n - 1) BY <2>2, <3>1
      <3> HIDE DEF None
      <3> QED BY <2>1, <3>2
    <2>4. PICK f : Is(f, n - 1) BY <2>3
    <2>5. PICK g : g = [k \in 0..n |-> IF k <= n - 1 THEN f[k] ELSE Step(f[n - 1], k)] OBVIOUS
    <2>6. \A k \in 0..n : g[k] = IF k = 0 THEN base ELSE Step(g[k - 1], k)
      <3> TAKE k \in 0..n
      <3>1. CASE k = 0 BY <2>3, <2>4, <2>5, <3>1
      <3>2. CASE k # 0 /\ k <= n - 1
        <4>1. g[k] = f[k] /\ g[k - 1] = f[k - 1] /\ k \in 0..n - 1 BY <2>3, <2>5, <3>2
        <4>2. f[k] = Step(f[k - 1], k) BY <2>4, <3>2, <4>1
        <4> QED BY <3>2, <4>1, <4>2
      <3>3. CASE k = n
        <4>1. g[k] = Step(f[n - 1], k) /\ g[k - 1] = f[n - 1] BY <2>2, <2>3, <2>5, <3>3
        <4> QED BY <2>2, <3>3, <4>1
      <3> QED BY <2>3, <3>1, <3>2, <3>3
    <2>7. Is(g, n)
      <3>1. g = [k \in 0..n |-> g[k]] BY <2>5
      <3> QED BY <2>6, <3>1
    <2> QED BY <2>1, <2>7
  <1>4. PICK f : f = CHOOSE h : Is(h, many) OBVIOUS
  <1>5. Is(f, many)
    <2> HIDE DEF Is
    <2> QED BY <1>3, <1>4
  <1>6. UpsertMarkets(p, id) = f[many] BY <1>2, <1>4
  <1> QED BY <1>5, <1>6 DEF many, Step, base

LEMMA LoopGathers ==
    ASSUME NEW p \in Snapshots, NEW id \in Nat, NothingOf(id)
    PROVE  Gathered(UpsertMarkets(p, id), Len(p.markets), p, id)
  <1>1. PICK last \in Nat : last = Len(p.markets) BY SnapshotAssumption
  <1>2. PICK f : /\ UpsertMarkets(p, id) = f[last]
                 /\ f = [n \in 0..last |-> IF n = 0 THEN NoneUpserted(p)
                                           ELSE _upsert_market(f[n - 1], p.markets[n], id)]
    BY <1>1, LoopHasValues
  <1> DEFINE Lost == {n \in Nat : n <= last /\ ~Gathered(f[n], n, p, id)}
  <1> SUFFICES ASSUME last \in Lost PROVE FALSE BY <1>1, <1>2
  <1>3. PICK n \in Lost : \A m \in Lost : n <= m
    <2>1. Lost \in SUBSET Nat OBVIOUS
    <2> HIDE DEF Lost
    <2> QED BY <2>1, LeastNatural
  <1>4. n # 0
    <2>1. f[0] = NoneUpserted(p) BY <1>2
    <2> QED BY <1>3, <2>1, NothingGathered
  <1>5. n - 1 \in Nat /\ n \in 0..last /\ n - 1 \notin Lost BY <1>3, <1>4
  <1>6. Gathered(f[n - 1], n - 1, p, id) BY <1>5
  <1>7. f[n] = _upsert_market(f[n - 1], p.markets[n], id) BY <1>2, <1>4, <1>5
  <1>8. UpsertedAs(f[n - 1], f[n], id) BY <1>6, <1>7, UpsertTakesAWay DEF Gathered
  <1>9. Gathered(f[n], (n - 1) + 1, p, id) BY <1>5, <1>6, <1>8, GatheredGrows
  <1> QED BY <1>3, <1>9

----------------------------------------------------------------------------
(* MarketSnapshots: its transactions, its batches and what retention leaves. *)

Complete == {"completed", "completed_with_rejections"}

\* A batch accounts for every market of its payload.
Accounts(b, observed, rejected, i) ==
    /\ b.at \in Nat /\ b.status \in Complete /\ b.counts \in BatchCounts
    /\ b.counts.received = b.counts.accepted + b.counts.rejected + b.counts.duplicated
    /\ b.counts.accepted = Cardinality(Observed(observed, i))
    /\ b.counts.rejected = Cardinality(RejectedOf(rejected, i))

IsNewest(batches, i) ==
    /\ i \in DOMAIN batches
    /\ \A j \in DOMAIN batches : \/ batches[i].at > batches[j].at
                                 \/ batches[i].at = batches[j].at /\ i >= j

\* An open transaction is of a payload, under an id that no batch or other one has.
OpenOnesApart ==
    /\ DOMAIN msTx = Ingestors
    /\ \A w \in Ingestors : msTx[w].pc = "open" =>
          /\ msTx[w].payload \in Snapshots
          /\ msTx[w].id \in 1..msNextId - 1 /\ msTx[w].id \notin msIds
          /\ \A v \in Ingestors : msTx[v].pc = "open" /\ msTx[v].id = msTx[w].id => v = w
RowsBelong ==
    /\ IsFiniteSet(msObserved) /\ \A o \in msObserved : o.payload \in msIds
    /\ msRejected \in Seq(Rejections) /\ \A k \in DOMAIN msRejected : msRejected[k][1] \in msIds
BatchesAccount == \A i \in msIds : Accounts(msBatches[i], msObserved, msRejected, i)
NewestHasBody == msIds # {} => \E i \in msIds : IsNewest(msBatches, i) /\ msBatches[i].body
SnapshotsCounted ==
    /\ msClock \in 0..MaxSnapshotClock
    /\ msNextId \in 1..MaxSnapshots + 1
    /\ msIds \subseteq 1..msNextId - 1
    /\ msCensus.volume \in {"ok", "warning", "critical"}
SnapshotsInv ==
    SnapshotsCounted /\ OpenOnesApart /\ RowsBelong /\ BatchesAccount /\ NewestHasBody

LEMMA SnapshotsStart == ASSUME msInit PROVE SnapshotsInv
  <1>1. msIds = {} BY DEF msInit, msIds
  <1>2. SnapshotsCounted BY <1>1, SnapshotAssumption DEF msInit, SnapshotsCounted
  <1>3. OpenOnesApart BY DEF msInit, OpenOnesApart, NoSnapshotTx
  <1>4. RowsBelong
    <2>1. msObserved = {} /\ msRejected = << >> BY DEF msInit
    <2>2. msRejected \in Seq(Rejections) /\ DOMAIN msRejected = {} BY <2>1
    <2> QED BY <2>1, <2>2, FS_EmptySet DEF RowsBelong
  <1>5. BatchesAccount /\ NewestHasBody BY <1>1 DEF BatchesAccount, NewestHasBody
  <1> QED BY <1>2, <1>3, <1>4, <1>5 DEF SnapshotsInv

\* What the batches say stays true while they and their rows do.
LEMMA BatchesStay ==
    ASSUME SnapshotsInv, UNCHANGED <<msBatches, msObserved, msRejected>>
    PROVE  /\ msIds' = msIds /\ RowsBelong' /\ BatchesAccount' /\ NewestHasBody'
  <1>1. msIds' = msIds BY DEF msIds
  <1> QED BY <1>1 DEF SnapshotsInv, RowsBelong, BatchesAccount, NewestHasBody

LEMMA SnapshotTickKeeps == ASSUME SnapshotsInv, SnapshotTick PROVE SnapshotsInv'
  <1>1. UNCHANGED <<msBatches, msObserved, msRejected>> BY DEF SnapshotTick
  <1>2. SnapshotsCounted'
    <2>1. /\ msClock < MaxSnapshotClock /\ msClock' = msClock + 1
          /\ UNCHANGED <<msNextId, msCensus>> /\ msIds' = msIds
      BY <1>1, BatchesStay DEF SnapshotTick
    <2>2. msClock' \in 0..MaxSnapshotClock
      BY <2>1, SnapshotAssumption DEF SnapshotsInv, SnapshotsCounted
    <2> QED BY <2>1, <2>2 DEF SnapshotsInv, SnapshotsCounted
  <1>3. OpenOnesApart' BY <1>1, BatchesStay DEF SnapshotsInv, OpenOnesApart, SnapshotTick
  <1> QED BY <1>1, <1>2, <1>3, BatchesStay DEF SnapshotsInv

LEMMA RepeatKeeps ==
    ASSUME SnapshotsInv, NEW w, NEW p, NEW key, RepeatSnapshot(w, p, key)
    PROVE  SnapshotsInv'
  <1>1. /\ UNCHANGED <<msBatches, msObserved, msRejected>>
        /\ UNCHANGED <<msClock, msTx, msCensus>>
        /\ msNextId <= MaxSnapshots /\ msNextId' = msNextId + 1
    BY DEF RepeatSnapshot
  <1>2. msIds' = msIds BY <1>1, BatchesStay
  <1>3. /\ msNextId \in 1..MaxSnapshots + 1 /\ msIds \subseteq 1..msNextId - 1
        /\ MaxSnapshots \in Nat
    BY SnapshotAssumption DEF SnapshotsInv, SnapshotsCounted
  <1>4. msNextId' \in 1..MaxSnapshots + 1 /\ 1..msNextId - 1 \subseteq 1..msNextId' - 1
    BY <1>1, <1>3
  <1>5. SnapshotsCounted' BY <1>1, <1>2, <1>3, <1>4 DEF SnapshotsInv, SnapshotsCounted
  <1>6. OpenOnesApart' BY <1>1, <1>2, <1>4 DEF SnapshotsInv, OpenOnesApart
  <1> QED BY <1>1, <1>5, <1>6, BatchesStay DEF SnapshotsInv

LEMMA BeginKeeps ==
    ASSUME SnapshotsInv, NEW w \in Ingestors, NEW p \in Snapshots, NEW key,
           BeginSnapshot(w, p, key)
    PROVE  SnapshotsInv'
  <1>1. PICK t : t = [pc |-> "open", id |-> msNextId, key |-> key, payload |-> p] OBVIOUS
  <1>2. /\ UNCHANGED <<msBatches, msObserved, msRejected>>
        /\ UNCHANGED <<msClock, msCensus>> /\ msTx' = [msTx EXCEPT ![w] = t]
        /\ msNextId <= MaxSnapshots /\ msNextId' = msNextId + 1
    BY <1>1 DEF BeginSnapshot
  <1>3. msIds' = msIds BY <1>2, BatchesStay
  <1>4. /\ msNextId \in 1..MaxSnapshots + 1 /\ msIds \subseteq 1..msNextId - 1
        /\ MaxSnapshots \in Nat
    BY SnapshotAssumption DEF SnapshotsInv, SnapshotsCounted
  <1>5. msNextId' \in 1..MaxSnapshots + 1 /\ 1..msNextId - 1 \subseteq 1..msNextId' - 1
        /\ msNextId \in 1..msNextId' - 1 /\ msNextId \notin 1..msNextId - 1
    BY <1>2, <1>4
  <1>6. SnapshotsCounted' BY <1>2, <1>3, <1>4, <1>5 DEF SnapshotsInv, SnapshotsCounted
  <1>7. OpenOnesApart'
    <2>1. t.pc = "open" /\ t.id = msNextId /\ t.payload = p BY <1>1
    <2>2. /\ DOMAIN msTx = Ingestors
          /\ \A v \in Ingestors : msTx[v].pc = "open" =>
                /\ msTx[v].payload \in Snapshots
                /\ msTx[v].id \in 1..msNextId - 1 /\ msTx[v].id \notin msIds
                /\ \A u \in Ingestors : msTx[u].pc = "open" /\ msTx[u].id = msTx[v].id => u = v
      BY DEF SnapshotsInv, OpenOnesApart
    <2>3. /\ DOMAIN msTx' = Ingestors /\ msTx'[w] = t
          /\ \A v \in Ingestors : v # w => msTx'[v] = msTx[v]
      BY <1>2, <2>2
    <2>4. \A v \in Ingestors : v # w /\ msTx[v].pc = "open" => msTx[v].id # msNextId
      BY <1>5, <2>2
    <2>5. ASSUME NEW v \in Ingestors, msTx'[v].pc = "open"
          PROVE  /\ msTx'[v].payload \in Snapshots
                 /\ msTx'[v].id \in 1..msNextId' - 1 /\ msTx'[v].id \notin msIds'
      <3>1. CASE v = w BY <1>3, <1>4, <1>5, <2>1, <2>3, <3>1
      <3>2. CASE v # w
        <4>1. msTx'[v] = msTx[v] BY <2>3, <3>2
        <4>2. /\ msTx[v].payload \in Snapshots
              /\ msTx[v].id \in 1..msNextId - 1 /\ msTx[v].id \notin msIds
          BY <2>2, <2>5, <4>1
        <4> QED BY <1>3, <1>5, <4>1, <4>2
      <3> QED BY <3>1, <3>2
    <2>6. ASSUME NEW v \in Ingestors, NEW u \in Ingestors,
                 msTx'[v].pc = "open", msTx'[u].pc = "open", msTx'[u].id = msTx'[v].id
          PROVE  u = v
      <3>1. CASE u # w /\ v # w BY <2>2, <2>3, <2>6, <3>1
      <3>2. CASE u = w /\ v # w BY <2>1, <2>3, <2>4, <2>6, <3>2
      <3>3. CASE u # w /\ v = w BY <2>1, <2>3, <2>4, <2>6, <3>3
      <3> QED BY <3>1, <3>2, <3>3
    <2> QED BY <2>3, <2>5, <2>6 DEF OpenOnesApart
  <1> QED BY <1>2, <1>6, <1>7, BatchesStay DEF SnapshotsInv

LEMMA RollBackKeeps ==
    ASSUME SnapshotsInv, NEW w \in Ingestors, RollBackSnapshot(w)
    PROVE  SnapshotsInv'
  <1>1. /\ UNCHANGED <<msBatches, msObserved, msRejected>>
        /\ UNCHANGED <<msClock, msNextId, msCensus>>
        /\ msTx' = [msTx EXCEPT ![w] = NoSnapshotTx]
    BY DEF RollBackSnapshot
  <1>2. msIds' = msIds BY <1>1, BatchesStay
  <1>3. SnapshotsCounted' BY <1>1, <1>2 DEF SnapshotsInv, SnapshotsCounted
  <1>4. OpenOnesApart'
    <2>1. NoSnapshotTx.pc # "open" BY DEF NoSnapshotTx
    <2> QED BY <1>1, <1>2, <2>1 DEF SnapshotsInv, OpenOnesApart
  <1> QED BY <1>1, <1>3, <1>4, BatchesStay DEF SnapshotsInv

\* What the loop has gathered, as the batch and the others see it.
LEMMA GatheredAccounts ==
    ASSUME SnapshotsInv, NEW p \in Snapshots, NEW id \in Nat, id \notin msIds,
           NEW s, Gathered(s, Len(p.markets), p, id)
    PROVE  /\ s.counts \in BatchCounts
           /\ s.counts.received = s.counts.accepted + s.counts.rejected + s.counts.duplicated
           /\ s.counts.accepted = Cardinality(Observed(s.observed, id))
           /\ s.counts.rejected = Cardinality(RejectedOf(s.rejected, id))
           /\ \A i \in msIds : /\ Observed(s.observed, i) = Observed(msObserved, i)
                               /\ RejectedOf(s.rejected, i) = RejectedOf(msRejected, i)
           /\ IsFiniteSet(s.observed) /\ \A o \in s.observed : o.payload \in msIds \cup {id}
           /\ s.rejected \in Seq(Rejections)
           /\ \A k \in DOMAIN s.rejected : s.rejected[k][1] \in msIds \cup {id}
  <1>1. PICK c \in BatchCounts : c = s.counts BY DEF Gathered
  <1>2. c.rejected \in Nat BY DEF BatchCounts
  <1>3. c.received = c.accepted + c.rejected + c.duplicated BY <1>1 DEF Gathered
  <1>4. PICK k \in Nat : k = Len(msRejected) BY DEF SnapshotsInv, RowsBelong
  <1>5. PICK n \in Nat : n = Len(s.rejected) BY DEF Gathered
  <1>6. /\ n = k + c.rejected
        /\ DOMAIN msRejected = 1..k /\ DOMAIN s.rejected = 1..n
        /\ \A j \in 1..k : s.rejected[j] = msRejected[j]
        /\ \A j \in k + 1..n : s.rejected[j][1] = id
    <2>1. DOMAIN msRejected = 1..k /\ DOMAIN s.rejected = 1..n
      BY <1>4, <1>5, ElementsTyped DEF SnapshotsInv, RowsBelong, Gathered
    <2> QED BY <1>1, <1>4, <1>5, <2>1 DEF Gathered
  <1>7. \A j \in 1..k : s.rejected[j][1] = msRejected[j][1] /\ msRejected[j][1] \in msIds
    BY <1>6 DEF SnapshotsInv, RowsBelong
  <1>8. \A j \in 1..n : j \in 1..k \/ j \in k + 1..n BY <1>4, <1>5
  <1>9. \A j \in 1..k : j \in 1..n /\ j \notin k + 1..n BY <1>2, <1>4, <1>5, <1>6
  <1>10. \A j \in k + 1..n : j \in 1..n BY <1>4, <1>5
  <1>11. RejectedOf(s.rejected, id) = k + 1..n
    BY <1>6, <1>7, <1>8, <1>10 DEF RejectedOf
  <1>12. Cardinality(k + 1..n) = c.rejected
    <2>1. k + 1 \in Int /\ n \in Int OBVIOUS
    <2>2. Cardinality(k + 1..n) = IF k + 1 > n THEN 0 ELSE n - (k + 1) + 1
      BY <2>1, FS_Interval, Zenon
    <2> QED BY <1>2, <1>6, <2>2
  <1>13. \A i \in msIds : RejectedOf(s.rejected, i) = RejectedOf(msRejected, i)
    BY <1>6, <1>7, <1>8, <1>9 DEF RejectedOf
  <1>14. \A j \in DOMAIN s.rejected : s.rejected[j][1] \in msIds \cup {id}
    BY <1>6, <1>7, <1>8
  <1>15. /\ IsFiniteSet(s.observed)
         /\ \A o : o \in s.observed /\ o.payload # id <=> o \in msObserved
         /\ \A o \in msObserved : o.payload \in msIds
    BY DEF SnapshotsInv, RowsBelong, Gathered
  <1>16. \A i \in msIds : Observed(s.observed, i) = Observed(msObserved, i)
    BY <1>15 DEF Observed
  <1> QED BY <1>1, <1>3, <1>11, <1>12, <1>13, <1>14, <1>15, <1>16 DEF Gathered

LEMMA CommitKeeps ==
    ASSUME SnapshotsInv, NEW w \in Ingestors, NEW heard, CommitSnapshot(w, heard)
    PROVE  SnapshotsInv'
  <1>1. PICK id : id = msTx[w].id OBVIOUS
  <1>2. PICK p : p = msTx[w].payload OBVIOUS
  <1>3. PICK s : s = UpsertMarkets(p, id) OBVIOUS
  <1>4. PICK b : b = [key |-> msTx[w].key, payload |-> p, at |-> p.at, counts |-> s.counts,
                      body |-> TRUE, status |-> IF s.counts.rejected > 0
                                                THEN "completed_with_rejections"
                                                ELSE "completed"]
    OBVIOUS
  <1>5. /\ msTx[w].pc = "open" /\ msBatches' = Put(msBatches, id, b)
        /\ msObserved' = s.observed /\ msRejected' = s.rejected
        /\ msTx' = [msTx EXCEPT ![w] = NoSnapshotTx]
        /\ UNCHANGED <<msClock, msNextId, msCensus>>
    BY <1>1, <1>2, <1>3, <1>4 DEF CommitSnapshot
  <1>6. /\ p \in Snapshots /\ id \in 1..msNextId - 1 /\ id \notin msIds
        /\ msNextId \in Nat /\ msIds \subseteq 1..msNextId - 1
    BY <1>1, <1>2, <1>5 DEF SnapshotsInv, OpenOnesApart, SnapshotsCounted
  <1>7. id \in Nat /\ p.at \in Nat BY <1>6, SnapshotAssumption
  <1>8. NothingOf(id) BY <1>6 DEF SnapshotsInv, RowsBelong, NothingOf
  <1>9. Gathered(s, Len(p.markets), p, id) BY <1>3, <1>6, <1>7, <1>8, LoopGathers
  <1>10. /\ b.at = p.at /\ b.counts = s.counts /\ b.body = TRUE /\ b.status \in Complete
    BY <1>4 DEF Complete
  <1>11. /\ msIds' = msIds \cup {id} /\ msBatches'[id] = b
         /\ \A i \in msIds : msBatches'[i] = msBatches[i]
    <2>1. /\ DOMAIN Put(msBatches, id, b) = msIds \cup {id}
          /\ Put(msBatches, id, b)[id] = b
          /\ \A i \in msIds : i # id => Put(msBatches, id, b)[i] = msBatches[i]
      BY DEF msIds, Put
    <2>2. msIds' = DOMAIN Put(msBatches, id, b) BY <1>5 DEF msIds
    <2> QED BY <1>5, <1>6, <2>1, <2>2
  <1>12. SnapshotsCounted'
    <2>1. msIds' \subseteq 1..msNextId' - 1 BY <1>5, <1>6, <1>11
    <2>2. UNCHANGED <<msClock, msNextId, msCensus>> BY <1>5
    <2> QED BY <2>1, <2>2 DEF SnapshotsInv, SnapshotsCounted
  <1>13. OpenOnesApart'
    <2>1. NoSnapshotTx.pc # "open" BY DEF NoSnapshotTx
    <2>2. /\ DOMAIN msTx = Ingestors
          /\ \A v \in Ingestors : msTx[v].pc = "open" =>
                /\ msTx[v].payload \in Snapshots
                /\ msTx[v].id \in 1..msNextId - 1 /\ msTx[v].id \notin msIds
                /\ \A u \in Ingestors : msTx[u].pc = "open" /\ msTx[u].id = msTx[v].id => u = v
      BY DEF SnapshotsInv, OpenOnesApart
    <2>3. /\ DOMAIN msTx' = Ingestors /\ msTx'[w] = NoSnapshotTx
          /\ \A v \in Ingestors : v # w => msTx'[v] = msTx[v]
      BY <1>5, <2>2
    <2>4. \A v \in Ingestors : v # w /\ msTx[v].pc = "open" => msTx[v].id # id
      BY <1>1, <1>5, <2>2
    <2> QED BY <1>5, <1>11, <2>1, <2>2, <2>3, <2>4 DEF OpenOnesApart
  <1>14. /\ s.counts \in BatchCounts
         /\ s.counts.received = s.counts.accepted + s.counts.rejected + s.counts.duplicated
         /\ s.counts.accepted = Cardinality(Observed(s.observed, id))
         /\ s.counts.rejected = Cardinality(RejectedOf(s.rejected, id))
         /\ \A i \in msIds : /\ Observed(s.observed, i) = Observed(msObserved, i)
                             /\ RejectedOf(s.rejected, i) = RejectedOf(msRejected, i)
         /\ IsFiniteSet(s.observed) /\ \A o \in s.observed : o.payload \in msIds \cup {id}
         /\ s.rejected \in Seq(Rejections)
         /\ \A k \in DOMAIN s.rejected : s.rejected[k][1] \in msIds \cup {id}
    BY <1>6, <1>7, <1>9, GatheredAccounts
  <1>15. RowsBelong' BY <1>5, <1>11, <1>14 DEF RowsBelong
  <1>16. BatchesAccount'
    <2>1. Accounts(b, s.observed, s.rejected, id)
      BY <1>7, <1>10, <1>14 DEF Accounts
    <2>2. \A i \in msIds : Accounts(msBatches[i], s.observed, s.rejected, i)
      BY <1>14 DEF SnapshotsInv, BatchesAccount, Accounts
    <2> QED BY <1>5, <1>11, <2>1, <2>2 DEF BatchesAccount
  <1>17. NewestHasBody'
    <2>1. msIds' # {} BY <1>11
    <2>2. \A i \in msIds : msBatches[i].at \in Nat /\ i \in Nat
      BY <1>6 DEF SnapshotsInv, BatchesAccount, Accounts
    <2>3. CASE msIds = {}
      <3>1. IsNewest(msBatches', id) BY <1>7, <1>10, <1>11, <2>3 DEF IsNewest, msIds
      <3> QED BY <1>10, <1>11, <3>1 DEF NewestHasBody
    <2>4. CASE msIds # {}
      <3>1. PICK n \in msIds : IsNewest(msBatches, n) /\ msBatches[n].body
        BY <2>4 DEF SnapshotsInv, NewestHasBody
      <3>2. \A j \in msIds : \/ msBatches[n].at > msBatches[j].at
                             \/ msBatches[n].at = msBatches[j].at /\ n >= j
        BY <3>1 DEF IsNewest, msIds
      <3>3. CASE b.at > msBatches[n].at \/ (b.at = msBatches[n].at /\ id >= n)
        <4>1. \A j \in msIds : \/ b.at > msBatches[j].at
                               \/ b.at = msBatches[j].at /\ id >= j
          BY <1>7, <1>10, <2>2, <3>2, <3>3
        <4>2. IsNewest(msBatches', id) BY <1>7, <1>10, <1>11, <4>1 DEF IsNewest, msIds
        <4> QED BY <1>10, <1>11, <4>2 DEF NewestHasBody
      <3>4. CASE ~(b.at > msBatches[n].at \/ (b.at = msBatches[n].at /\ id >= n))
        <4>1. msBatches[n].at > b.at \/ (msBatches[n].at = b.at /\ n >= id)
          BY <1>7, <1>10, <2>2, <3>4
        <4>2. msBatches'[n].at = msBatches[n].at /\ msBatches'[id].at = b.at
              /\ \A j \in msIds : msBatches'[j].at = msBatches[j].at
          BY <1>11
        <4>3. \A j \in msIds \cup {id} :
                \/ msBatches'[n].at > msBatches'[j].at
                \/ msBatches'[n].at = msBatches'[j].at /\ n >= j
          BY <3>2, <4>1, <4>2
        <4>4. IsNewest(msBatches', n) BY <1>11, <4>3 DEF IsNewest, msIds
        <4> QED BY <1>11, <3>1, <4>4 DEF NewestHasBody
      <3> QED BY <3>3, <3>4
    <2> QED BY <2>3, <2>4
  <1> QED BY <1>12, <1>13, <1>15, <1>16, <1>17 DEF SnapshotsInv

\* There is one newest batch.
LEMMA NewestIs ==
    ASSUME SnapshotsInv, NEW n \in msIds, IsNewest(msBatches, n)
    PROVE  NewestOf(msBatches, msIds) = n
  <1> DEFINE Newest(i) == \A j \in msIds : \/ msBatches[i].at > msBatches[j].at
                                           \/ msBatches[i].at = msBatches[j].at /\ i >= j
  <1>1. \A i \in msIds : msBatches[i].at \in Nat /\ i \in Int
    BY DEF SnapshotsInv, SnapshotsCounted, BatchesAccount, Accounts
  <1>2. Newest(n) BY DEF IsNewest, msIds
  <1>3. \A i \in msIds : Newest(i) => i = n
    <2> TAKE i \in msIds
    <2> HAVE Newest(i)
    <2>1. msBatches[i].at > msBatches[n].at \/ (msBatches[i].at = msBatches[n].at /\ i >= n)
      OBVIOUS
    <2>2. msBatches[n].at > msBatches[i].at \/ (msBatches[i].at = msBatches[n].at /\ n >= i)
      BY <1>2
    <2> QED BY <1>1, <2>1, <2>2
  <1>4. NewestOf(msBatches, msIds) = CHOOSE i \in msIds : Newest(i) BY DEF NewestOf
  <1> HIDE DEF Newest
  <1> QED BY <1>2, <1>3, <1>4

LEMMA PruneKeeps ==
    ASSUME SnapshotsInv, NEW days, NEW dryRun, prune_source_payload_bodies(days, dryRun)
    PROVE  SnapshotsInv'
  <1>1. PICK rows : rows = IF dryRun THEN {} ELSE _prunable_rows(msBatches, msClock - days)
    OBVIOUS
  <1>2. /\ msBatches' = [i \in msIds |-> IF i \in rows THEN [msBatches[i] EXCEPT !.body = FALSE]
                                        ELSE msBatches[i]]
        /\ UNCHANGED <<msClock, msNextId, msTx, msObserved, msRejected>>
    BY <1>1 DEF prune_source_payload_bodies
  <1>3. msCensus'.volume \in {"ok", "warning", "critical"}
    <2>1. PICK pruned, tombstoned, eligible, redundant, bites, used :
            msCensus' = [pruned |-> pruned, tombstoned |-> tombstoned, eligible |-> eligible,
                         redundant |-> redundant, bites |-> bites,
                         volume |-> database_capacity_state(used)]
      BY Zenon DEF prune_source_payload_bodies
    <2>2. msCensus'.volume = database_capacity_state(used) BY <2>1
    <2> QED BY <2>2 DEF database_capacity_state
  <1>4. msIds' = msIds BY <1>2 DEF msIds
  <1>5. \A i \in msIds : /\ msBatches'[i].at = msBatches[i].at
                         /\ msBatches'[i].status = msBatches[i].status
                         /\ msBatches'[i].counts = msBatches[i].counts
                         /\ i \notin rows => msBatches'[i] = msBatches[i]
    BY <1>2
  <1>6. SnapshotsCounted' BY <1>2, <1>3, <1>4 DEF SnapshotsInv, SnapshotsCounted
  <1>7. OpenOnesApart' BY <1>2, <1>4 DEF SnapshotsInv, OpenOnesApart
  <1>8. RowsBelong' BY <1>2, <1>4 DEF SnapshotsInv, RowsBelong
  <1>9. BatchesAccount'
    <2>1. \A i \in msIds : Accounts(msBatches'[i], msObserved, msRejected, i)
      BY <1>5 DEF SnapshotsInv, BatchesAccount, Accounts
    <2> QED BY <1>2, <1>4, <2>1 DEF BatchesAccount
  <1>10. NewestHasBody'
    <2> SUFFICES ASSUME msIds # {} PROVE NewestHasBody' BY <1>4 DEF NewestHasBody
    <2>1. PICK n \in msIds : IsNewest(msBatches, n) /\ msBatches[n].body
      BY DEF SnapshotsInv, NewestHasBody
    <2>2. NewestOf(msBatches, DOMAIN msBatches) = n BY <2>1, NewestIs DEF msIds
    <2>3. n \notin rows
      <3>1. \A cutoff : n \notin _prunable_rows(msBatches, cutoff)
        BY <2>2 DEF _prunable_rows, Prunable
      <3> QED BY <1>1, <3>1
    <2>4. IsNewest(msBatches', n) BY <1>4, <1>5, <2>1 DEF IsNewest, msIds
    <2> QED BY <1>4, <1>5, <2>1, <2>3, <2>4 DEF NewestHasBody
  <1> QED BY <1>6, <1>7, <1>8, <1>9, <1>10 DEF SnapshotsInv

LEMMA SnapshotsStay == ASSUME SnapshotsInv, UNCHANGED msVars PROVE SnapshotsInv'
  <1>1. /\ UNCHANGED <<msBatches, msObserved, msRejected>>
        /\ UNCHANGED <<msClock, msNextId, msTx, msCensus>>
    BY DEF msVars
  <1>2. SnapshotsCounted' BY <1>1, BatchesStay DEF SnapshotsInv, SnapshotsCounted
  <1>3. OpenOnesApart' BY <1>1, BatchesStay DEF SnapshotsInv, OpenOnesApart
  <1> QED BY <1>1, <1>2, <1>3, BatchesStay DEF SnapshotsInv

LEMMA SnapshotsStep == ASSUME SnapshotsInv, msNext PROVE SnapshotsInv'
  BY SnapshotTickKeeps, RepeatKeeps, BeginKeeps, CommitKeeps, RollBackKeeps, PruneKeeps
     DEF msNext

\* The steps of MCOperations are steps of the snapshots or leave them alone.
LEMMA SnapshotsFrame == ASSUME [Next]_vars PROVE msNext \/ UNCHANGED msVars
  BY DEF Next, vars, SnapshotFocus

LEMMA SnapshotsAreInductive == Spec => []SnapshotsInv
  <1>1. Init => SnapshotsInv BY SnapshotsStart DEF Init
  <1>2. SnapshotsInv /\ [Next]_vars => SnapshotsInv'
    BY SnapshotsFrame, SnapshotsStep, SnapshotsStay
  <1> QED BY <1>1, <1>2, PTL DEF Spec

LEMMA SnapshotsTyped == ASSUME SnapshotsInv PROVE msTypeOK
  BY DEF SnapshotsInv, SnapshotsCounted, OpenOnesApart, msTypeOK

LEMMA ServedIsWhole == ASSUME SnapshotsInv PROVE ServedSnapshotIsWhole
  <1> DEFINE complete == {i \in msIds : msBatches[i].status \in
                              {"completed", "completed_with_rejections"}}
  <1>1. complete = msIds
    BY DEF SnapshotsInv, BatchesAccount, Accounts, Complete
  <1>2. CASE msIds = {}
    <2>1. load_latest_kalshi_snapshot = 0 BY <1>1, <1>2 DEF load_latest_kalshi_snapshot
    <2> QED BY <2>1 DEF ServedSnapshotIsWhole
  <1>3. CASE msIds # {}
    <2>1. PICK n \in msIds : IsNewest(msBatches, n) /\ msBatches[n].body
      BY <1>3 DEF SnapshotsInv, NewestHasBody
    <2>2. load_latest_kalshi_snapshot = n
      BY <1>1, <1>3, <2>1, NewestIs DEF load_latest_kalshi_snapshot
    <2>3. Accounts(msBatches[n], msObserved, msRejected, n)
      BY DEF SnapshotsInv, BatchesAccount
    <2> QED BY <2>1, <2>2, <2>3 DEF ServedSnapshotIsWhole, Accounts, Observed, RejectedOf
  <1> QED BY <1>2, <1>3

\* The stored views are whole: the snapshot that load_latest_kalshi_snapshot serves has its
\* body and accounts for its markets, each open market is on exactly one of the pages that
\* list_external_markets links, and a book stored in order is the one its market shows.
THEOREM StoredViewsWhole == Spec => []StoredViewsAreWhole
  <1>1. SnapshotsInv /\ CatalogInv => StoredViewsAreWhole
    BY ServedIsWhole, BooksAreCurrent, EveryMarketIsOnAPage DEF StoredViewsAreWhole
  <1> QED BY <1>1, SnapshotsAreInductive, CatalogIsInductive, PTL

----------------------------------------------------------------------------
(* The types of every component of MCOperations. *)

LEMMA SessionTyped == ASSUME SessionInv PROVE ssTypeOK
  <1>1. SessionShape BY DEF SessionInv
  <1>2. \A s \in DOMAIN ssSessions : ssSessions[s].revoked \in BOOLEAN
    <2>1. \A s \in DOMAIN ssSessions : ssSessions[s] \in SessionRows
      BY <1>1, ElementsTyped DEF SessionShape
    <2>2. \A row \in SessionRows : row.revoked \in BOOLEAN BY DEF SessionRows
    <2> QED BY <2>1, <2>2
  <1>3. \A r \in Requests : ssFlight[r].at \in {"none", "sent", "known", "in", "leaving",
                                                "reply", "done"}
    <2>1. NoRequest.at = "none" BY DEF NoRequest
    <2>2. \A r \in Requests : ssFlight[r] = NoRequest \/ ssFlight[r] \in SentRequests
      BY <1>1 DEF SessionShape
    <2> QED BY <2>1, <2>2 DEF SentRequests
  <1>4. ssJar.session \in 0..Len(ssSessions) /\ ssJar.csrf \in 0..ssTokens
    BY <1>1 DEF SessionShape
  <1> QED BY <1>1, <1>2, <1>3, <1>4 DEF SessionShape, ssTypeOK

LEMMA PreflightTyped == ASSUME PreflightInv PROVE pfTypeOK
  <1> DEFINE Verdicts == {"pass", "warn", "fail", "unknown"}
  <1>1. \A e : /\ check_migrations(e) \in Verdicts /\ check_safety_controls(e) \in Verdicts
               /\ check_auth_configuration(e) \in Verdicts /\ check_sign_in_possible(e) \in Verdicts
    BY DEF check_migrations, check_safety_controls, check_auth_configuration,
           check_sign_in_possible
  <1> HIDE DEF Verdicts
  <1>2. \A a, b, c, d \in Verdicts : <<a, b, c, d>> \in Seq(Verdicts) OBVIOUS
  <1>3. pfReport # NoReportYet => pfReport \in Seq(Verdicts)
    BY <1>1, <1>2 DEF PreflightInv
  <1> QED BY <1>3 DEF pfTypeOK, Verdicts

LEMMA InboxTyped == ASSUME InboxInv PROVE obTypeOK
  <1>1. \A i \in DOMAIN obMessages : obMessages[i] \in Messages
    BY ElementsTyped DEF InboxInv, InboxShape
  <1>2. \A m \in Messages : m.id \in MessageIds /\ m.status \in {"queued", "claimed", "completed"}
    BY DEF Messages
  <1>3. \A c \in Calls : c.op \in {"none", "claim", "complete"} BY DEF Calls, NoCall
  <1>4. \A a \in Agents : obCall[a] \in Calls BY DEF InboxInv, InboxShape
  <1> QED BY <1>1, <1>2, <1>3, <1>4 DEF obTypeOK

LEMMA FleetTyped == ASSUME FleetInv PROVE fsTypeOK
  <1>1. fsClock \in Int BY FleetAssumption DEF FleetInv
  <1>2. \A s \in Services : fsWorker[s] \in FleetRows BY DEF FleetInv
  <1>3. \A row \in FleetRows : row.heartbeat \in Int BY DEF FleetRows
  <1>4. \A s \in Services : fsWorker[s].heartbeat >= -1 /\ fsWorker[s].heartbeat <= fsClock
    BY DEF FleetInv, RowTells
  <1>5. \A s \in Services : fsWorker[s].heartbeat \in -1..fsClock BY <1>1, <1>2, <1>3, <1>4
  <1>6. fsReporter.at \in {"asleep", "building", "status", "completed", "failed"}
    BY DEF FleetInv
  <1> QED BY <1>5, <1>6 DEF FleetInv, fsTypeOK

FocusIsKnown ==
    focus[1] \in {"snapshots", "catalog", "sessions", "preflight", "dashboard", "inbox",
                  "startup", "fleet"}

LEMMA FocusStays == Spec => []FocusIsKnown
  <1>1. ASSUME NEW part \in Parts
        PROVE  part[1] \in {"snapshots", "catalog", "sessions", "preflight", "dashboard",
                           "inbox", "startup", "fleet"}
    <2>1. \/ \E s \in Services : part = <<"fleet", s>>
          \/ part = <<"snapshots", "">> \/ part = <<"catalog", "books">>
          \/ part = <<"catalog", "rows">> \/ part = <<"sessions", "tokens">>
          \/ part = <<"sessions", "locks">> \/ part = <<"sessions", "rest">>
          \/ part = <<"preflight", "">> \/ part = <<"dashboard", "">>
          \/ part = <<"inbox", "">> \/ part = <<"startup", "code">>
          \/ part = <<"startup", "pools">>
      BY Zenon DEF Parts
    <2>2. \A a, b : <<a, b>>[1] = a OBVIOUS
    <2> QED BY <2>1, <2>2
  <1>2. Init => FocusIsKnown BY <1>1 DEF Init, FocusIsKnown
  <1>3. FocusIsKnown /\ [Next]_vars => FocusIsKnown' BY DEF Next, vars, FocusIsKnown
  <1> QED BY <1>2, <1>3, PTL DEF Spec

\* Every component that serves or keeps the system running keeps the shape of its state.
THEOREM OperationsTyped == Spec => []OperationsTypeOK
  <1>1. /\ SnapshotsInv /\ CatalogInv /\ SessionInv /\ PreflightInv
        /\ DashboardInv /\ InboxInv /\ StartupInv /\ FleetInv /\ FocusIsKnown
        => OperationsTypeOK
    <2> SUFFICES ASSUME SnapshotsInv, CatalogInv, SessionInv, PreflightInv, DashboardInv,
                        InboxInv, StartupInv, FleetInv, FocusIsKnown
                 PROVE  OperationsTypeOK
      OBVIOUS
    <2>1. msTypeOK /\ csTypeOK BY SnapshotsTyped DEF CatalogInv, CatalogShape
    <2>2. ssTypeOK /\ pfTypeOK BY SessionTyped, PreflightTyped
    <2>3. drTypeOK /\ obTypeOK BY DashboardTyped, InboxTyped
    <2>4. dsTypeOK /\ fsTypeOK BY StartupInvIsSafe, FleetTyped
    <2> QED BY <2>1, <2>2, <2>3, <2>4 DEF OperationsTypeOK, FocusIsKnown
  <1> QED BY <1>1, FocusStays, SnapshotsAreInductive, CatalogIsInductive, SessionIsInductive,
             PreflightIsInductive, DashboardIsInductive, InboxIsInductive, StartupIsInductive,
             FleetIsInductive, PTL

=============================================================================
