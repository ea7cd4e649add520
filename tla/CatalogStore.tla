----------------------------- MODULE CatalogStore -----------------------------
(***************************************************************************)
(* The sports catalog in the database: source_catalog_store.py writes what *)
(* the collectors fetched, source_data_store.py reads it for the API and   *)
(* plans the refreshes before a game.  A collector fetches, and stores     *)
(* what it fetched some time later, so that two of them may store in the   *)
(* other order.  The upsert of a market locks its row, which makes the     *)
(* reading of its latest observation and the insertion of the next one     *)
(* one step.                                                               *)
(***************************************************************************)
EXTENDS Integers, Sequences, SequencesExt

CONSTANTS
    CatalogCollectors,
    CatalogIds,        \* ids of a source
    Values,            \* what a source can say of one of them
    BookAge,           \* max_age_seconds of list_external_markets, in ticks
    LiveAge,           \* max_age_seconds of list_live_data
    EntityAge,         \* max_age_seconds of list_entities
    PageSizes,         \* limits asked for
    MaxPageSize,       \* MAX_SOURCE_DATA_PAGE_SIZE
    GameStarts,        \* game_start_time of a market
    Windows,           \* pregame buckets: [before, name, priority], the closest first
    PregameHorizon,    \* minutes ahead that the planner looks
    MaxCatalogClock,   \* bound: ticks
    MaxStores          \* bound: polls stored

ASSUME CatalogStoreAssumption ==
    /\ CatalogIds \subseteq Nat /\ IsFiniteSet(CatalogIds)
    /\ BookAge \in Nat /\ LiveAge \in Nat /\ EntityAge \in Nat
    /\ PageSizes \subseteq Nat /\ MaxPageSize \in Nat \ {0}
    /\ PregameHorizon \in Nat /\ GameStarts \subseteq Nat
    /\ \A i \in 1..Len(Windows) - 1 : Windows[i].before < Windows[i + 1].before
    /\ MaxCatalogClock \in Nat /\ MaxStores \in Nat

\* Kinds that keep one row per id
RowKinds == {"sport", "entity", "milestone", "asset", "market"}

VARIABLES
    csClock,
    csPoll,       \* what each collector has fetched and not stored
    csRows,       \* the upserted rows, by kind and id
    csSnapshots,  \* core.source_entity_snapshots and core.source_live_snapshots
    csBooks,      \* core.external_market_observations with their outcomes, by id
    csPlanned,    \* keys of the pregame refreshes requested, with their priority
    csStores,     \* polls stored so far
    csLate        \* history: a poll was stored that is not later than the last of its id
csVars == <<csClock, csPoll, csRows, csSnapshots, csBooks, csPlanned, csStores, csLate>>

NoPoll == [kind |-> "none"]

csInit ==
    /\ csClock = 0
    /\ csPoll = [c \in CatalogCollectors |-> NoPoll]
    /\ csRows = << >>
    /\ csSnapshots = {}
    /\ csBooks = [id \in CatalogIds |-> << >>]
    /\ csPlanned = {}
    /\ csStores = 0
    /\ csLate = FALSE

CatalogTick ==
    /\ csClock < MaxCatalogClock
    /\ csClock' = csClock + 1
    /\ UNCHANGED <<csPoll, csRows, csSnapshots, csBooks, csPlanned, csStores, csLate>>

FetchCatalog(c, kind, id, value, start) ==
    /\ csPoll[c] = NoPoll
    /\ csStores < MaxStores
    /\ csPoll' = [csPoll EXCEPT ![c] =
            [kind |-> kind, id |-> id, value |-> value, start |-> start, at |-> csClock]]
    /\ csStores' = csStores + 1
    /\ UNCHANGED <<csClock, csRows, csSnapshots, csBooks, csPlanned, csLate>>

\* ON CONFLICT DO UPDATE: the row is the last writer's, last_seen_at included.
UpsertRow(p) ==
    LET key == <<p.kind, p.id>>
        row == [value |-> p.value, start |-> p.start, seen |-> p.at,
                first |-> IF key \in DOMAIN csRows THEN csRows[key].first ELSE p.at]
    IN  csRows' = [k \in DOMAIN csRows \cup {key} |-> IF k = key THEN row ELSE csRows[k]]

\* One row per content: the first poll that saw it is the one that is kept.
InsertSnapshot(p) ==
    LET same == {s \in csSnapshots :
                    s.kind = p.kind /\ s.id = p.id /\ s.value = p.value}
        row == [kind |-> p.kind, id |-> p.id, value |-> p.value, at |-> p.at]
    IN  csSnapshots' = IF same = {} THEN csSnapshots \cup {row} ELSE csSnapshots

\* ORDER BY observed_at DESC, id DESC LIMIT 1
LatestIndex(books) == CHOOSE i \in DOMAIN books : \A j \in DOMAIN books :
    \/ books[i].at > books[j].at
    \/ books[i].at = books[j].at /\ i >= j

\* Mutant of KeepBook: a price that comes back is taken for one that is stored.
KeepNewPrice(books, p) ==
    IF \E b \in ToSet(books) : b.value = p.value THEN books
    ELSE Append(books, [value |-> p.value, at |-> p.at])

\* A book is kept when it differs from the latest one; one that a poll of the same
\* moment has stored already is not kept again.
KeepBook(books, p) ==
    LET book == [value |-> p.value, at |-> p.at]
    IN  IF books # << >> /\ books[LatestIndex(books)].value = p.value THEN books
        ELSE IF book \in ToSet(books) THEN books ELSE Append(books, book)

Stored(c, p) ==
    /\ csPoll' = [csPoll EXCEPT ![c] = NoPoll]
    /\ csLate' = (csLate \/ \E key \in DOMAIN csRows :
                     key = <<p.kind, p.id>> /\ csRows[key].seen >= p.at)
    /\ UNCHANGED <<csClock, csPlanned, csStores>>

StoreRow(c, kind) ==
    LET p == csPoll[c] IN
    /\ p.kind = kind
    /\ UpsertRow(p)
    /\ UNCHANGED <<csSnapshots, csBooks>>
    /\ Stored(c, p)
upsert_sports(c) == StoreRow(c, "sport")
upsert_milestones(c) == StoreRow(c, "milestone")
upsert_assets(c) == StoreRow(c, "asset")

upsert_entities(c) ==
    LET p == csPoll[c] IN
    /\ p.kind = "entity"
    /\ UpsertRow(p)
    /\ InsertSnapshot(p)
    /\ UNCHANGED csBooks
    /\ Stored(c, p)

upsert_live_snapshots(c) ==
    LET p == csPoll[c] IN
    /\ p.kind = "live"
    /\ InsertSnapshot(p)
    /\ UNCHANGED <<csRows, csBooks>>
    /\ Stored(c, p)

upsert_external_markets(c) ==
    LET p == csPoll[c] IN
    /\ p.kind = "market"
    /\ UpsertRow(p)
    /\ csBooks' = [csBooks EXCEPT ![p.id] = KeepBook(@, p)]
    /\ UNCHANGED csSnapshots
    /\ Stored(c, p)

\* The transaction fails, or the process does: what was fetched is gone.
StoreFails(c) ==
    /\ csPoll[c] # NoPoll
    /\ csPoll' = [csPoll EXCEPT ![c] = NoPoll]
    /\ UNCHANGED <<csClock, csRows, csSnapshots, csBooks, csPlanned, csStores, csLate>>

(***************************************************************************)
(* The read model.                                                         *)
(***************************************************************************)
Fresh(at, age) == at >= csClock - age

\* max(1, min(limit, MAX_SOURCE_DATA_PAGE_SIZE))
AtMost(n, bound) == IF n <= bound THEN n ELSE bound
PageSize(limit) == IF limit < 1 THEN 1 ELSE AtMost(limit, MaxPageSize)

\* Ids in their order, from offset, at most limit and never more than a page
Page(ids, limit, offset) ==
    LET place(id) == Cardinality({i \in ids : i <= id})
        last == AtMost(offset + PageSize(limit), Cardinality(ids))
    IN  [items |-> {id \in ids : place(id) \in offset + 1..last}, total |-> Cardinality(ids),
         next |-> IF last < Cardinality(ids) /\ last > offset THEN last ELSE 0]

OpenMarkets == {id \in CatalogIds :
    <<"market", id>> \in DOMAIN csRows /\ csRows[<<"market", id>>].value # "closed"}

list_entities(limit, offset) ==
    Page({id \in CatalogIds : /\ <<"entity", id>> \in DOMAIN csRows
                              /\ Fresh(csRows[<<"entity", id>>].seen, EntityAge)},
         limit, offset)

LatestBook(id) == csBooks[id][LatestIndex(csBooks[id])]
ListedMarkets == {id \in OpenMarkets : csBooks[id] # << >> /\ Fresh(LatestBook(id).at, BookAge)}
list_external_markets(limit, offset) == Page(ListedMarkets, limit, offset)

\* DISTINCT ON the milestone, the newest first
list_live_data(limit) ==
    Page({id \in CatalogIds : \E s \in csSnapshots :
            s.kind = "live" /\ s.id = id /\ Fresh(s.at, LiveAge)}, limit, 0).items

(***************************************************************************)
(* schedule_pregame_refreshes: one request for each start and window, the  *)
(* key of an earlier one is left alone.                                    *)
(***************************************************************************)
WindowOf(minutes) ==
    LET reached == {i \in DOMAIN Windows : minutes <= Windows[i].before}
    IN  IF reached = {} THEN Windows[Len(Windows)] ELSE Windows[Min(reached)]

schedule_pregame_refreshes ==
    /\ LET starts == {csRows[<<"market", id>>].start : id \in OpenMarkets}
           near == {t \in starts : csClock <= t /\ t <= csClock + PregameHorizon}
       IN  csPlanned' = csPlanned \cup
                {[start |-> t, window |-> WindowOf(t - csClock).name,
                  priority |-> WindowOf(t - csClock).priority] : t \in near}
    /\ UNCHANGED <<csClock, csPoll, csRows, csSnapshots, csBooks, csStores, csLate>>

StoreCatalog(c) ==
    \/ upsert_sports(c) \/ upsert_milestones(c) \/ upsert_assets(c)
    \/ upsert_entities(c) \/ upsert_live_snapshots(c) \/ upsert_external_markets(c)
    \/ StoreFails(c)

csNext ==
    \/ CatalogTick
    \/ \E c \in CatalogCollectors :
        \/ \E kind \in RowKinds \cup {"live"}, id \in CatalogIds, value \in Values,
              start \in GameStarts : FetchCatalog(c, kind, id, value, start)
        \/ StoreCatalog(c)
    \/ schedule_pregame_refreshes
csSpec == csInit /\ [][csNext]_csVars

(***************************************************************************)
(* Properties.                                                             *)
(***************************************************************************)
csTypeOK ==
    /\ csClock \in 0..MaxCatalogClock
    /\ csStores \in 0..MaxStores
    /\ \A key \in DOMAIN csRows :
        /\ key \in RowKinds \X CatalogIds
        /\ csRows[key].first \in 0..csClock /\ csRows[key].seen \in 0..csClock
    /\ \A s \in csSnapshots : s.kind \in {"entity", "live"} /\ s.value \in Values

\* While every poll of a market is stored after those made before it, the book the API
\* lists is what the newest poll said, although a poll that changes nothing keeps no row
\* and a price may come back to what it was.
ListedBooksAreCurrent ==
    ~csLate =>
        \A id \in ListedMarkets :
            LatestBook(id).value = csRows[<<"market", id>>].value

\* The offsets that a reader asks for who follows next_offset from the first page
Followed(limit) ==
    LET offsets == 0..Cardinality(ListedMarkets)
    IN  {o \in offsets : \A asked \in SUBSET offsets :
            /\ 0 \in asked
            /\ \A q \in asked : list_external_markets(limit, q).next \in asked
            => o \in asked}

\* list_external_markets: a reader who follows next_offset from the first page finds each
\* listed market on one of the pages, and on no other.
PagesCover ==
    \A limit \in PageSizes : \A id \in ListedMarkets : \E o \in Followed(limit) :
        \A q \in Followed(limit) : id \in list_external_markets(limit, q).items <=> q = o
=============================================================================
