--------------------------- MODULE ResearchProofs ---------------------------
(***************************************************************************)
(* The theorems about the research parts.  MCResearch puts them beside     *)
(* each other without a shared variable, so that the steps of one leave    *)
(* the others alone: the invariant of each, from DecisionProofs and        *)
(* LedgerProofs or proved here, is one of the whole.                       *)
(***************************************************************************)
EXTENDS MCResearch, LedgerProofs

-----------------------------------------------------------------------------
(* HttpCache: what a response rests on. *)

CacheFiles == [saved : Nat, fetched : Nat, body : Nat]
AskingGets == [at : {"request"}, mode : Modes, url : Urls, started : Nat,
               cached : CacheFiles \cup {NoFile}, tries : Nat]
HttpResponses ==
    [at : {"write", "fill", "answered"}, mode : Modes, url : Urls, started : Nat, body : Nat,
     fetched : Nat, cached : BOOLEAN, stale : BOOLEAN, tries : Nat, age : Int]

\* The time a file says its body was fetched is the time it was.
HonestFile(file, now) ==
    file \in CacheFiles => file.body = file.fetched /\ file.fetched <= file.saved /\ file.saved <= now
HonestGet(g, now) ==
    /\ g.started <= now
    /\ g.tries <= MaxRetries
    /\ HonestFile(g.cached, now)
HonestResponse(g, now) ==
    /\ g.started <= now /\ g.fetched <= now /\ g.body = g.fetched
    /\ ~g.cached => g.fetched >= g.started /\ ~g.stale /\ g.tries > 0
    /\ g.cached => g.mode # "probe" /\ g.at = "answered"
    /\ g.stale => g.mode = "lenient" /\ g.tries > 0 /\ g.age <= MaxStale
    /\ g.cached /\ ~g.stale => g.tries = 0 /\ g.age <= CacheTtl
    /\ g.tries <= MaxRetries + 1

HttpInv ==
    /\ hcClock \in 0..MaxHttpClock
    /\ hcCache \in [Urls -> CacheFiles \cup {NoFile, TornFile}]
    /\ \A u \in Urls : HonestFile(hcCache[u], hcClock)
    /\ DOMAIN hcGet = HttpClients
    /\ \A c \in HttpClients :
          \/ hcGet[c] = Idle
          \/ hcGet[c] \in AskingGets /\ HonestGet(hcGet[c], hcClock)
          \/ hcGet[c] \in HttpResponses /\ HonestResponse(hcGet[c], hcClock)
          \/ hcGet[c].at = "failed"

LEMMA HttpStarts == ASSUME hcInit PROVE HttpInv
  BY HttpAssumption DEF hcInit, HttpInv, HonestFile, CacheFiles, NoFile

HonestClient(g, now) ==
    \/ g = Idle
    \/ g \in AskingGets /\ HonestGet(g, now)
    \/ g \in HttpResponses /\ HonestResponse(g, now)
    \/ g.at = "failed"

\* A step of one client leaves the others as they were.
LEMMA OneClientMoves ==
    ASSUME HttpInv, NEW c \in HttpClients, NEW g, hcGet' = [hcGet EXCEPT ![c] = g],
           HonestClient(g, hcClock), UNCHANGED <<hcClock, hcCache>>
    PROVE  HttpInv'
  <1>1. DOMAIN hcGet' = HttpClients BY DEF HttpInv
  <1>2. ASSUME NEW d \in HttpClients PROVE HonestClient(hcGet'[d], hcClock')
    <2>1. hcGet'[d] = IF d = c THEN g ELSE hcGet[d] BY DEF HttpInv
    <2> QED BY <2>1 DEF HttpInv, HonestClient
  <1> QED BY <1>1, <1>2 DEF HttpInv, HonestClient

LEMMA CacheAnswers ==
    ASSUME NEW g \in AskingGets, g.started <= hcClock, HonestFile(g.cached, hcClock),
           Readable(g.cached), hcClock \in Nat, NEW stale \in BOOLEAN, g.mode # "probe",
           stale => g.mode = "lenient" /\ hcClock - g.cached.saved <= MaxStale
                    /\ g.tries \in 1..MaxRetries + 1,
           ~stale => g.tries = 0 /\ hcClock - g.cached.saved <= CacheTtl
    PROVE  HonestClient(FromCache(g, stale), hcClock)
  <1> DEFINE f == FromCache(g, stale)
  <1>1. g.cached \in CacheFiles BY DEF AskingGets, Readable, NoFile
  <1>2. f \in HttpResponses BY <1>1 DEF FromCache, AskingGets, HttpResponses, CacheFiles
  <1>3. HonestResponse(f, hcClock)
    BY <1>1, HttpAssumption DEF HonestFile, HonestResponse, FromCache, AskingGets, CacheFiles
  <1> QED BY <1>2, <1>3 DEF HonestClient

LEMMA StartGetKeeps ==
    ASSUME HttpInv, NEW c \in HttpClients, NEW u \in Urls, NEW m \in Modes, StartGet(c, u, m)
    PROVE  HttpInv'
  <1> DEFINE file == hcCache[u]
             g == [at |-> "request", mode |-> m, url |-> u, started |-> hcClock,
                   cached |-> IF Readable(file) THEN file ELSE NoFile, tries |-> 0]
             next == IF Readable(file) /\ Ttl(m) > 0 /\ hcClock - file.saved <= Ttl(m)
                     THEN FromCache(g, FALSE) ELSE g
  <1>1. hcClock \in Nat /\ file \in CacheFiles \cup {NoFile, TornFile} BY HttpAssumption DEF HttpInv
  <1>2. g \in AskingGets
    BY <1>1 DEF AskingGets, Readable, NoFile, TornFile
  <1>3. HonestGet(g, hcClock)
    BY <1>1, HttpAssumption DEF HonestGet, HonestFile, HttpInv, NoFile, CacheFiles
  <1>4. HonestClient(next, hcClock)
    <2>1. CASE Readable(file) /\ Ttl(m) > 0 /\ hcClock - file.saved <= Ttl(m)
      <3>1. m # "probe" /\ Ttl(m) = CacheTtl BY <2>1 DEF Ttl
      <3>2. g.cached = file /\ Readable(g.cached) /\ g.tries = 0 /\ g.mode = m BY <2>1
      <3>3. HonestClient(FromCache(g, FALSE), hcClock)
        <4> HIDE DEF g
        <4> QED BY <1>1, <1>2, <1>3, <2>1, <3>1, <3>2, CacheAnswers DEF HonestGet
      <3> QED BY <2>1, <3>3
    <2>2. CASE ~(Readable(file) /\ Ttl(m) > 0 /\ hcClock - file.saved <= Ttl(m))
      <3> HIDE DEF g
      <3> QED BY <1>2, <1>3, <2>2 DEF HonestClient
    <2> QED BY <2>1, <2>2
  <1>5. hcGet' = [hcGet EXCEPT ![c] = next] /\ UNCHANGED <<hcClock, hcCache>>
    BY DEF StartGet
  <1> HIDE DEF next
  <1> QED BY <1>4, <1>5, OneClientMoves

LEMMA AskingIs ==
    ASSUME HttpInv, NEW c \in HttpClients
    PROVE  /\ hcGet[c].at = "request" => hcGet[c] \in AskingGets /\ HonestGet(hcGet[c], hcClock)
           /\ hcGet[c].at \in {"write", "fill", "answered"} =>
                 hcGet[c] \in HttpResponses /\ HonestResponse(hcGet[c], hcClock)
           /\ hcClock \in Nat
  BY HttpAssumption DEF HttpInv, Idle, AskingGets, HttpResponses

LEMMA AnsweredKeeps ==
    ASSUME HttpInv, NEW c \in HttpClients, Answered(c)
    PROVE  HttpInv'
  <1> DEFINE g == hcGet[c]
             response == [at |-> "answered", mode |-> g.mode, url |-> g.url,
                          started |-> g.started, body |-> hcClock, fetched |-> hcClock,
                          cached |-> FALSE, stale |-> FALSE, tries |-> g.tries + 1, age |-> 0]
             next == IF Ttl(g.mode) > 0 THEN [response EXCEPT !.at = "write"] ELSE response
  <1>1. g \in AskingGets /\ HonestGet(g, hcClock) /\ hcClock \in Nat
    BY AskingIs DEF Answered
  <1>2. next \in HttpResponses
    <2>1. response \in HttpResponses BY <1>1 DEF AskingGets, HttpResponses
    <2>2. [response EXCEPT !.at = "write"] \in HttpResponses BY <2>1 DEF HttpResponses
    <2> HIDE DEF response
    <2> QED BY <2>1, <2>2
  <1>3. HonestResponse(next, hcClock)
    BY <1>1, HttpAssumption DEF HonestGet, HonestResponse, AskingGets
  <1>4. hcGet' = [hcGet EXCEPT ![c] = next] /\ UNCHANGED <<hcClock, hcCache>>
    BY DEF Answered
  <1> HIDE DEF next
  <1> QED BY <1>2, <1>3, <1>4, OneClientMoves DEF HonestClient

LEMMA RequestFailsKeeps ==
    ASSUME HttpInv, NEW c \in HttpClients, NEW kind, RequestFails(c, kind)
    PROVE  HttpInv'
  <1> DEFINE g == hcGet[c]
             tried == [g EXCEPT !.tries = g.tries + 1]
             failed == [tried EXCEPT !.at = "failed"]
             stale == FromCache(tried, TRUE)
             retries == kind = "transient" /\ g.tries < MaxRetries
             falls == /\ kind # "raised" /\ (kind = "transient" => g.tries >= MaxRetries)
                      /\ MayServeStale(g)
             next == CASE retries -> tried [] falls -> stale [] OTHER -> failed
  <1>1. g \in AskingGets /\ HonestGet(g, hcClock) /\ hcClock \in Nat
    BY AskingIs DEF RequestFails
  <1>2. g.tries \in Nat /\ MaxRetries \in Nat BY <1>1, HttpAssumption DEF AskingGets
  <1>3. ~(retries /\ falls) BY <1>2
  <1>4. /\ tried \in AskingGets /\ tried.tries = g.tries + 1 /\ tried.cached = g.cached
        /\ tried.mode = g.mode /\ tried.started = g.started
    BY <1>1 DEF AskingGets
  <1>5. retries => HonestClient(tried, hcClock)
    <2>1. retries => HonestGet(tried, hcClock)
      BY <1>1, <1>2, HttpAssumption DEF AskingGets, HonestGet
    <2> HIDE DEF tried
    <2> QED BY <1>4, <2>1 DEF HonestClient
  <1>6. falls => HonestClient(stale, hcClock)
    <2>1. falls => /\ g.tries + 1 \in 1..MaxRetries + 1 /\ Readable(g.cached)
                   /\ g.mode = "lenient" /\ hcClock - g.cached.saved <= MaxStale
      BY <1>1, HttpAssumption DEF AskingGets, HonestGet, MayServeStale
    <2> HIDE DEF tried, falls
    <2> QED BY <1>1, <1>4, <2>1, CacheAnswers DEF HonestGet
  <1>7. HonestClient(failed, hcClock)
    <2>1. failed.at = "failed" BY <1>1 DEF AskingGets
    <2> QED BY <2>1 DEF HonestClient
  <1>8. hcGet' = [hcGet EXCEPT ![c] = next] /\ UNCHANGED <<hcClock, hcCache>>
    BY DEF RequestFails
  <1>9. HonestClient(next, hcClock)
    <2> HIDE DEF tried, failed, stale, retries, falls
    <2> QED BY <1>3, <1>5, <1>6, <1>7
  <1> HIDE DEF next
  <1> QED BY <1>8, <1>9, OneClientMoves

\* Writing moves the file of one url and the place of one client.
LEMMA WritingKeeps ==
    ASSUME HttpInv, NEW c \in HttpClients, OpenFile(c) \/ FillFile(c) \/ WriteFails(c)
    PROVE  HttpInv'
  <1>1. PICK at \in {"fill", "answered"} : hcGet' = [hcGet EXCEPT ![c].at = at]
    BY DEF OpenFile, FillFile, WriteFails
  <1>2. /\ hcGet[c] \in HttpResponses /\ HonestResponse(hcGet[c], hcClock)
        /\ hcGet[c].at \in {"write", "fill"} /\ hcClock \in Nat /\ UNCHANGED hcClock
    BY AskingIs DEF OpenFile, FillFile, WriteFails
  <1>3. ~hcGet[c].cached BY <1>2 DEF HonestResponse, HttpResponses
  <1>4. /\ [hcGet[c] EXCEPT !.at = at] \in HttpResponses
        /\ HonestResponse([hcGet[c] EXCEPT !.at = at], hcClock)
    BY <1>2, <1>3, HttpAssumption DEF HttpResponses, HonestResponse
  <1>5. /\ hcCache' \in [Urls -> CacheFiles \cup {NoFile, TornFile}]
        /\ \A u \in Urls : HonestFile(hcCache'[u], hcClock)
    <2>1. CASE OpenFile(c)
      <3>1. TornFile \notin CacheFiles BY DEF TornFile, CacheFiles
      <3> QED BY <2>1, <3>1 DEF OpenFile, HttpInv, HonestFile
    <2>2. CASE FillFile(c)
      <3> DEFINE new == [saved |-> hcClock, fetched |-> hcGet[c].fetched, body |-> hcGet[c].body]
      <3>1. new \in CacheFiles /\ HonestFile(new, hcClock)
        BY <1>2 DEF CacheFiles, HttpResponses, HonestResponse, HonestFile
      <3>2. hcCache' = [hcCache EXCEPT ![hcGet[c].url] = new] BY <2>2 DEF FillFile
      <3> HIDE DEF new
      <3> QED BY <3>1, <3>2 DEF HttpInv
    <2>3. CASE WriteFails(c) BY <2>3 DEF WriteFails, HttpInv
    <2> QED BY <2>1, <2>2, <2>3
  <1>6. ASSUME NEW d \in HttpClients PROVE HonestClient(hcGet'[d], hcClock)
    <2>1. CASE d = c
      <3>1. hcGet'[d] = [hcGet[c] EXCEPT !.at = at] BY <1>1, <2>1 DEF HttpInv
      <3> QED BY <1>4, <3>1 DEF HonestClient
    <2>2. CASE d # c
      <3>1. hcGet'[d] = hcGet[d] BY <1>1, <2>2 DEF HttpInv
      <3> QED BY <3>1 DEF HonestClient, HttpInv
    <2> QED BY <2>1, <2>2
  <1>7. DOMAIN hcGet' = HttpClients BY <1>1 DEF HttpInv
  <1> QED BY <1>2, <1>5, <1>6, <1>7 DEF HttpInv, HonestClient

LEMMA HttpTickKeeps == ASSUME HttpInv, HttpTick PROVE HttpInv'
  <1>1. hcClock \in Nat /\ hcClock' \in 0..MaxHttpClock /\ hcClock <= hcClock'
    BY HttpAssumption DEF HttpTick, HttpInv
  <1>2. ASSUME NEW f \in CacheFiles \cup {NoFile, TornFile}, HonestFile(f, hcClock)
        PROVE  HonestFile(f, hcClock')
    BY <1>1, <1>2 DEF HonestFile, CacheFiles, HttpTick, HttpInv
  <1>3. \A u \in Urls : HonestFile(hcCache'[u], hcClock') BY <1>2 DEF HttpInv, HttpTick
  <1>4. ASSUME NEW c \in HttpClients PROVE HonestClient(hcGet'[c], hcClock')
    <2>1. CASE hcGet[c] \in AskingGets /\ HonestGet(hcGet[c], hcClock)
      <3>1. HonestFile(hcGet[c].cached, hcClock') BY <1>2, <2>1 DEF AskingGets, HonestGet
      <3>2. HonestGet(hcGet[c], hcClock') BY <1>1, <2>1, <3>1 DEF AskingGets, HonestGet, HttpTick, HttpInv
      <3> QED BY <2>1, <3>2 DEF HonestClient, HttpTick
    <2>2. CASE hcGet[c] \in HttpResponses /\ HonestResponse(hcGet[c], hcClock)
      <3>1. HonestResponse(hcGet[c], hcClock') BY <1>1, <2>2 DEF HttpResponses, HonestResponse, HttpTick, HttpInv
      <3> QED BY <2>2, <3>1 DEF HonestClient, HttpTick
    <2> QED BY <2>1, <2>2 DEF HonestClient, HttpTick, HttpInv
  <1> QED BY <1>1, <1>3, <1>4 DEF HttpInv, HttpTick, HonestClient

LEMMA PruneKeeps == ASSUME HttpInv, prune_http_cache PROVE HttpInv'
  <1>1. PICK kept : hcCache' = [u \in Urls |-> IF u \in kept THEN hcCache[u] ELSE NoFile]
    BY DEF prune_http_cache
  <1>2. NoFile \notin CacheFiles BY DEF NoFile, CacheFiles
  <1> QED BY <1>1, <1>2 DEF HttpInv, HonestFile, prune_http_cache

LEMMA HttpKeeps == ASSUME HttpInv, HttpFocus \/ UNCHANGED hcVars PROVE HttpInv'
  <1>1. CASE UNCHANGED hcVars BY <1>1 DEF HttpInv, hcVars
  <1>2. CASE HttpFocus
    <2>1. CASE HttpTick \/ prune_http_cache BY <2>1, HttpTickKeeps, PruneKeeps
    <2>2. ASSUME NEW c \in HttpClients, NEW u \in Urls, NEW m \in Modes, StartGet(c, u, m)
          PROVE  HttpInv'
      BY <2>2, StartGetKeeps
    <2>3. ASSUME NEW c \in HttpClients,
                 \/ Answered(c) \/ OpenFile(c) \/ FillFile(c) \/ WriteFails(c)
                 \/ \E kind \in {"transient", "refused", "raised"} : RequestFails(c, kind)
                 \/ TakeAnswer(c)
          PROVE  HttpInv'
      <3>1. CASE TakeAnswer(c) BY <3>1, OneClientMoves DEF TakeAnswer, HonestClient
      <3> QED BY <2>3, <3>1, AnsweredKeeps, WritingKeeps, RequestFailsKeeps
    <2>4. (CHOOSE d \in HttpClients : TRUE) \in HttpClients /\ (CHOOSE v \in Urls : TRUE) \in Urls
      BY HttpAssumption
    <2> QED BY <1>2, <2>1, <2>2, <2>3, <2>4 DEF HttpFocus
  <1> QED BY <1>1, <1>2

LEMMA HttpShows == ASSUME HttpInv PROVE ResponsesAreHonest /\ hcTypeOK
  <1>1. ResponsesAreHonest
    <2>1. \A c \in HttpClients : hcGet[c].at = "answered" =>
             hcGet[c] \in HttpResponses /\ HonestResponse(hcGet[c], hcClock)
      BY AskingIs
    <2> QED BY <2>1, HttpAssumption DEF ResponsesAreHonest, HonestResponse, HttpResponses
  <1>2. hcTypeOK
    <2>1. \A u \in Urls : hcCache[u].saved \in -2..hcClock
      BY HttpAssumption DEF HttpInv, HonestFile, CacheFiles, NoFile, TornFile
    <2> QED BY <2>1 DEF hcTypeOK, HttpInv, AskingGets, HttpResponses, Idle
  <1> QED BY <1>1, <1>2

-----------------------------------------------------------------------------
(* SlipPipeline: what a slip rests on. *)

\* What a quote of a behaviour can be
QuotesSeen == LegQuotes \cup ComboQuotes \cup {MCOpenLeg, MCOpenCombo}
FetchedCopies(clock) == [quote : QuotesSeen, fetched : 0..clock, state : {"fresh", "stale"}]
RunFields == {"at", "started", "query", "page", "combos", "legs", "stale"}
PayloadFields == {"at", "generated", "started", "stale", "slips", "picks", "sources", "gate"}

CopyIsDated(copy, run, clock) ==
    /\ copy \in FetchedCopies(clock)
    /\ copy.state = "fresh" => run.started - SlipTtl <= copy.fetched
    /\ run.stale = 0 => copy.state = "fresh"

RunShape(run, clock) ==
    /\ run = [x \in RunFields |-> run[x]]
    /\ run.at \in {"pages", "legs"} /\ run.started \in 0..clock /\ run.stale \in Nat
    /\ run.query \in 1..Len(ComboPages) /\ run.page \in 1..Len(ComboPages[run.query])
    /\ DOMAIN run.combos \subseteq Combos

RunIsDated(run, clock) ==
    /\ RunShape(run, clock)
    /\ \A t \in DOMAIN run.combos : CopyIsDated(run.combos[t], run, clock)
    /\ \A m \in DOMAIN run.legs : run.legs[m] = NoCopy \/ CopyIsDated(run.legs[m], run, clock)

\* A slip as its listing was when it was fetched, all but its age
SlipIsListed(slip, tier, started) ==
    LET legs == slip.legs
    IN  /\ Len(legs) = Len(ComboLegs[slip.ticker])
        /\ \A i \in DOMAIN legs :
             /\ <<legs[i].market, legs[i].side>> =
                   <<ComboLegs[slip.ticker][i].market, ComboLegs[slip.ticker][i].side>>
             /\ legs[i].state = "fresh" /\ legs[i].status \in {"active", "open"}
             /\ legs[i].fetched \in Int /\ started - SlipTtl <= legs[i].fetched
             /\ legs[i].ask # NoQuote
             /\ LegFacts[legs[i].market].line >= 105 => legs[i].side = "yes"
             /\ tier # "research_edge" /\ LegFacts[legs[i].market].line >= 125 =>
                   legs[i].probability >= 180
        /\ \A i, j \in DOMAIN legs :
             i # j => LegFacts[legs[i].market].key # LegFacts[legs[j].market].key
        /\ slip.ask \in 1..99 /\ started - SlipTtl <= slip.fetched
        /\ slip.basis # "unmodellable"

PayloadIsListed(payload, clock) ==
    /\ payload = [x \in PayloadFields |-> payload[x]]
    /\ payload.generated \in 0..clock /\ payload.started \in 0..payload.generated
    /\ payload.stale \in Nat
    /\ \A tier \in Tiers : payload.slips[tier].action = "BUILD_SLIP" =>
          payload.stale = 0 /\ SlipIsListed(payload.slips[tier], tier, payload.started)

\* SummaryMatchesSlips and ShownSlipsAreListed, of any payload
SummaryAgrees(payload) ==
    payload # NoPayload /\ payload.gate = "fresh_data_ready" =>
        \A tier \in Tiers :
            LET built == payload.slips[tier].action = "BUILD_SLIP"
                eligible == payload.sources.tiers[tier].eligible
            IN  IF tier = "research_edge" THEN built => eligible > 0 ELSE built <=> eligible > 0

ShowsListed(shown) ==
    shown # NoPayload => \A tier \in Tiers :
        LET slip == shown.slips[tier]
        IN  slip.action = "BUILD_SLIP" =>
              /\ SlipIsListed(slip, tier, shown.started)
              /\ \A i \in DOMAIN slip.legs :
                   shown.shown - slip.legs[i].fetched
                     <= MaxSlipAge + SlipTtl + shown.generated - shown.started

\* The files of the cache: what was said of listings and of markets, and when
PageFilesAre(files, clock) ==
    \A x \in DOMAIN files :
        /\ files[x] = [said |-> files[x].said, fetched |-> files[x].fetched]
        /\ files[x].fetched \in 0..clock /\ DOMAIN files[x].said \subseteq Combos
        /\ \A t \in DOMAIN files[x].said : files[x].said[t] \in QuotesSeen

LegFilesAre(files, clock) ==
    \A x \in DOMAIN files :
        /\ files[x] = [said |-> files[x].said, fetched |-> files[x].fetched]
        /\ files[x].fetched \in 0..clock /\ files[x].said \in QuotesSeen

SlipInv ==
    /\ spClock \in 0..MaxSlipClock /\ spMoves \in 0..MaxMoves
    /\ spExchange = [x \in {"leg", "combo"} |-> spExchange[x]]
    /\ spExchange.leg \in [LegMarkets -> QuotesSeen]
    /\ spExchange.combo \in [Combos -> QuotesSeen]
    /\ PageFilesAre(spPageFiles, spClock) /\ LegFilesAre(spLegFiles, spClock)
    /\ spRun = NoRun \/ RunIsDated(spRun, spClock)
    /\ spPayload = NoPayload \/ PayloadIsListed(spPayload, spClock)
    /\ SummaryAgrees(spPayload) /\ ShowsListed(spShown)

LEMMA QuotesAreNumbers ==
    ASSUME NEW q \in QuotesSeen
    PROVE  q.yes.bid \in Int /\ q.yes.ask \in Int /\ q.no.bid \in Int /\ q.no.ask \in Int
  BY SlipAssumption DEF QuotesSeen, MCOpenLeg, MCOpenCombo, MCSide

LEMMA PagesListCombos ==
    ASSUME NEW q \in DOMAIN ComboPages, NEW p \in DOMAIN ComboPages[q]
    PROVE  ComboPages[q][p] \subseteq Combos
  <1>1. ComboPages \in Seq(Seq(SUBSET DOMAIN ComboLegs)) BY SlipAssumption
  <1>2. ComboPages[q] \in Seq(SUBSET DOMAIN ComboLegs) BY <1>1
  <1> QED BY <1>2 DEF Combos

LEMMA FirstPages ==
    /\ 1 \in DOMAIN ComboPages
    /\ \A q \in DOMAIN ComboPages : 1 \in DOMAIN ComboPages[q]
  <1>1. ComboPages \in Seq(Seq(SUBSET DOMAIN ComboLegs)) /\ ComboPages # <<>>
    BY SlipAssumption
  <1>2. ASSUME NEW q \in DOMAIN ComboPages PROVE 1 \in DOMAIN ComboPages[q]
    <2>1. ComboPages[q] \in Seq(SUBSET DOMAIN ComboLegs) /\ ComboPages[q] # <<>>
      BY <1>1, SlipAssumption
    <2> QED BY <2>1
  <1> QED BY <1>1, <1>2

LEMMA SlipStarts == ASSUME SlipsInit PROVE SlipInv
  <1>1. spExchange = [x \in {"leg", "combo"} |-> spExchange[x]]
    BY DEF SlipsInit, MCCalm
  <1>2. /\ spExchange.leg \in [LegMarkets -> QuotesSeen]
        /\ spExchange.combo \in [Combos -> QuotesSeen]
    BY DEF QuotesSeen, SlipsInit, MCCalm
  <1>3. spMoves \in 0..MaxMoves /\ spClock \in 0..MaxSlipClock
    BY SlipAssumption DEF SlipsInit
  <1>4. PageFilesAre(spPageFiles, spClock)
    <2>1. CASE spPageFiles = << >> BY <2>1 DEF PageFilesAre
    <2>2. ASSUME NEW pages \in SUBSET MCPages, spPageFiles = MCOldPages(pages)
          PROVE  PageFilesAre(spPageFiles, spClock)
      <3> SUFFICES ASSUME NEW x \in pages
                   PROVE  /\ spPageFiles[x] = [said |-> spPageFiles[x].said,
                                                fetched |-> spPageFiles[x].fetched]
                          /\ spPageFiles[x].fetched \in 0..spClock
                          /\ DOMAIN spPageFiles[x].said \subseteq Combos
                          /\ \A t \in DOMAIN spPageFiles[x].said :
                                spPageFiles[x].said[t] \in QuotesSeen
        BY <2>2 DEF PageFilesAre, MCOldPages
      <3>1. PICK q \in DOMAIN ComboPages : x = <<q, 1>> BY DEF MCPages
      <3>2. ComboPages[x[1]][x[2]] \subseteq Combos BY <3>1, FirstPages, PagesListCombos
      <3> DEFINE old == [t \in ComboPages[x[1]][x[2]] |-> MCOpenCombo]
      <3>3. spPageFiles[x] = [said |-> old, fetched |-> 0] BY <2>2 DEF MCOldPages
      <3>4. \A t \in DOMAIN old : old[t] \in QuotesSeen BY DEF QuotesSeen
      <3>5. DOMAIN old \subseteq Combos BY <3>2
      <3>6. 0 \in 0..spClock BY <1>3
      <3> HIDE DEF old
      <3> QED BY <3>3, <3>4, <3>5, <3>6
    <2> QED BY <2>1, <2>2 DEF SlipsInit
  <1>5. LegFilesAre(spLegFiles, spClock)
    <2>1. CASE spLegFiles = << >> BY <2>1 DEF LegFilesAre
    <2>2. ASSUME NEW legs, spLegFiles = MCOldLegs(legs)
          PROVE  LegFilesAre(spLegFiles, spClock)
      BY <1>3, <2>2 DEF LegFilesAre, MCOldLegs, QuotesSeen
    <2> QED BY <2>1, <2>2 DEF SlipsInit
  <1> QED BY <1>1, <1>2, <1>3, <1>4, <1>5
       DEF SlipInv, SlipsInit, SummaryAgrees, ShowsListed

LEMMA SlipTickKeeps == ASSUME SlipInv, SlipTick PROVE SlipInv'
  <1>1. spClock \in 0..spClock' /\ spClock' \in 0..MaxSlipClock
    BY SlipAssumption DEF SlipInv, SlipTick
  <1>2. FetchedCopies(spClock) \subseteq FetchedCopies(spClock')
    BY <1>1 DEF FetchedCopies
  <1>3. spRun' = NoRun \/ RunIsDated(spRun', spClock')
    BY <1>1, <1>2 DEF SlipInv, SlipTick, RunIsDated, RunShape, CopyIsDated
  <1>4. spPayload' = NoPayload \/ PayloadIsListed(spPayload', spClock')
    BY <1>1 DEF SlipInv, SlipTick, PayloadIsListed
  <1>5. PageFilesAre(spPageFiles', spClock') /\ LegFilesAre(spLegFiles', spClock')
    <2>1. UNCHANGED <<spPageFiles, spLegFiles>> BY DEF SlipTick, spFiles
    <2>2. 0..spClock \subseteq 0..spClock' BY <1>1
    <2> QED BY <2>1, <2>2 DEF SlipInv, PageFilesAre, LegFilesAre
  <1> QED BY <1>1, <1>3, <1>4, <1>5 DEF SlipInv, SlipTick

\* The cache: what is said now and what was said before make files of the same kind.
LEMMA ListingsAreSeen ==
    ASSUME SlipInv, NEW q \in DOMAIN ComboPages, NEW p \in DOMAIN ComboPages[q]
    PROVE  LET listing == Listing(q, p)
           IN  DOMAIN listing \subseteq Combos /\ \A t \in DOMAIN listing : listing[t] \in QuotesSeen
  <1>1. ComboPages[q][p] \subseteq Combos BY PagesListCombos
  <1> QED BY <1>1 DEF Listing, SlipInv

PageFileIs(file, clock) ==
    /\ file = [said |-> file.said, fetched |-> file.fetched]
    /\ file.fetched \in 0..clock /\ DOMAIN file.said \subseteq Combos
    /\ \A t \in DOMAIN file.said : file.said[t] \in QuotesSeen

LegFileIs(file, clock) ==
    /\ file = [said |-> file.said, fetched |-> file.fetched]
    /\ file.fetched \in 0..clock /\ file.said \in QuotesSeen

LEMMA PageFilesGrow ==
    ASSUME NEW clock, NEW files, PageFilesAre(files, clock), NEW request, NEW file,
           PageFileIs(file, clock)
    PROVE  PageFilesAre(Over([x \in {request} |-> file], files), clock)
  <1> DEFINE all == Over([x \in {request} |-> file], files)
  <1>1. DOMAIN all = {request} \cup DOMAIN files BY DEF Over
  <1>2. \A x \in DOMAIN all : all[x] = IF x = request THEN file ELSE files[x] BY DEF Over
  <1> HIDE DEF all
  <1>3. \A x \in DOMAIN files : PageFileIs(files[x], clock) BY DEF PageFilesAre, PageFileIs
  <1>4. \A x \in DOMAIN all : PageFileIs(all[x], clock) BY <1>1, <1>2, <1>3
  <1>5. PageFilesAre(all, clock) BY <1>4 DEF PageFilesAre, PageFileIs
  <1> QED BY <1>5 DEF all

LEMMA LegFilesGrow ==
    ASSUME NEW clock, NEW files, LegFilesAre(files, clock), NEW request, NEW file,
           LegFileIs(file, clock)
    PROVE  LegFilesAre(Over([x \in {request} |-> file], files), clock)
  <1> DEFINE all == Over([x \in {request} |-> file], files)
  <1>1. DOMAIN all = {request} \cup DOMAIN files BY DEF Over
  <1>2. \A x \in DOMAIN all : all[x] = IF x = request THEN file ELSE files[x] BY DEF Over
  <1> HIDE DEF all
  <1>3. \A x \in DOMAIN files : LegFileIs(files[x], clock) BY DEF LegFilesAre, LegFileIs
  <1>4. \A x \in DOMAIN all : LegFileIs(all[x], clock) BY <1>1, <1>2, <1>3
  <1>5. LegFilesAre(all, clock) BY <1>4 DEF LegFilesAre, LegFileIs
  <1> QED BY <1>5 DEF all

\* What is answered is what is said now, or the file, which is recent if it counts as fresh.
LEMMA AnswersAre ==
    ASSUME NEW files, NEW request, NEW now, NEW answer \in Answers(files, request, now),
           request \in DOMAIN files =>
              files[request] = [said |-> files[request].said, fetched |-> files[request].fetched]
    PROVE  \/ answer = NoCopy
           \/ answer.state = "fresh" /\ answer.said = now /\ answer.fetched = spClock
           \/ /\ request \in DOMAIN files /\ answer.state \in {"fresh", "stale"}
              /\ answer.said = files[request].said /\ answer.fetched = files[request].fetched
              /\ answer.state = "fresh" => spClock - answer.fetched <= SlipTtl
  <1> DEFINE file(state) == Over([state |-> state], files[request])
             live == [said |-> now, fetched |-> spClock, state |-> "fresh"]
  <1>1. ASSUME request \in DOMAIN files, NEW state
        PROVE  /\ file(state).state = state /\ file(state).said = files[request].said
               /\ file(state).fetched = files[request].fetched
    <2>1. PICK said, fetched : files[request] = [said |-> said, fetched |-> fetched] BY <1>1
    <2>2. Over([state |-> state], [said |-> said, fetched |-> fetched])
            = [x \in {"state", "said", "fetched"} |->
                 IF x = "state" THEN state ELSE [said |-> said, fetched |-> fetched][x]]
      BY DEF Over
    <2> QED BY <2>1, <2>2
  <1>2. live.said = now /\ live.fetched = spClock /\ live.state = "fresh" OBVIOUS
  <1>3. CASE SlipTtl > 0 /\ Recent(files, request, SlipTtl)
    <2>1. answer = file("fresh") BY <1>3 DEF Answers
    <2>2. request \in DOMAIN files /\ spClock - files[request].fetched <= SlipTtl
      BY <1>3 DEF Recent
    <2> HIDE DEF file
    <2> QED BY <1>1, <2>1, <2>2
  <1>4. CASE ~(SlipTtl > 0 /\ Recent(files, request, SlipTtl))
    <2>1. \/ answer = live \/ answer = NoCopy
          \/ answer = file("stale") /\ Recent(files, request, SlipMaxStale)
      BY <1>4 DEF Answers
    <2> HIDE DEF file, live
    <2>2. ASSUME answer = file("stale"), Recent(files, request, SlipMaxStale)
          PROVE  /\ request \in DOMAIN files /\ answer.state = "stale"
                 /\ answer.said = files[request].said /\ answer.fetched = files[request].fetched
      BY <1>1, <2>2 DEF Recent
    <2> QED BY <1>2, <2>1, <2>2
  <1> QED BY <1>3, <1>4

LEMMA FilesKeep ==
    ASSUME SlipInv,
           \/ \E q \in DOMAIN ComboPages : \E p \in DOMAIN ComboPages[q] : OthersFetchPage(q, p)
           \/ \E m \in LegMarkets : OthersFetchLeg(m)
           \/ \E pages, legs : FilesGo(pages, legs)
    PROVE  SlipInv'
  <1>1. spClock \in 0..spClock BY DEF SlipInv
  <1>2. UNCHANGED <<spClock, spExchange, spMoves, spRun, spPayload, spShown>>
    BY DEF OthersFetchPage, OthersFetchLeg, FilesGo
  <1>3. ASSUME NEW q \in DOMAIN ComboPages, NEW p \in DOMAIN ComboPages[q], OthersFetchPage(q, p)
        PROVE  PageFilesAre(spPageFiles', spClock) /\ LegFilesAre(spLegFiles', spClock)
    <2> DEFINE listing == Listing(q, p)
    <2> HIDE DEF listing
    <2>1. DOMAIN listing \subseteq Combos /\ \A t \in DOMAIN listing : listing[t] \in QuotesSeen
      BY ListingsAreSeen, Zenon DEF listing
    <2>2. PageFilesAre(spPageFiles, spClock) /\ LegFilesAre(spLegFiles, spClock) BY DEF SlipInv
    <2> DEFINE file == Saved(listing)
    <2>3. PageFileIs(file, spClock) BY <1>1, <2>1 DEF PageFileIs, Saved
    <2>4. spPageFiles' = Over([x \in {<<q, p>>} |-> file], spPageFiles) /\ spLegFiles' = spLegFiles
      BY <1>3 DEF OthersFetchPage, listing
    <2> HIDE DEF file
    <2> QED BY <2>2, <2>3, <2>4, PageFilesGrow
  <1>4. ASSUME NEW m \in LegMarkets, OthersFetchLeg(m)
        PROVE  PageFilesAre(spPageFiles', spClock) /\ LegFilesAre(spLegFiles', spClock)
    <2> DEFINE said == spExchange.leg[m]
    <2>1. said \in QuotesSeen BY DEF SlipInv
    <2> HIDE DEF said
    <2>2. PageFilesAre(spPageFiles, spClock) /\ LegFilesAre(spLegFiles, spClock) BY DEF SlipInv
    <2> DEFINE file == Saved(said)
    <2>3. LegFileIs(file, spClock) BY <1>1, <2>1 DEF LegFileIs, Saved
    <2>4. spLegFiles' = Over([x \in {m} |-> file], spLegFiles) /\ spPageFiles' = spPageFiles
      BY <1>4 DEF OthersFetchLeg, said
    <2> HIDE DEF file
    <2> QED BY <2>2, <2>3, <2>4, LegFilesGrow
  <1>5. ASSUME NEW pages, NEW legs, FilesGo(pages, legs)
        PROVE  PageFilesAre(spPageFiles', spClock) /\ LegFilesAre(spLegFiles', spClock)
    <2>1. /\ spPageFiles' = [x \in DOMAIN spPageFiles \ pages |-> spPageFiles[x]]
          /\ spLegFiles' = [x \in DOMAIN spLegFiles \ legs |-> spLegFiles[x]]
      BY <1>5 DEF FilesGo, Restrict
    <2> QED BY <2>1 DEF SlipInv, PageFilesAre, LegFilesAre
  <1>6. PageFilesAre(spPageFiles', spClock') /\ LegFilesAre(spLegFiles', spClock')
    BY <1>2, <1>3, <1>4, <1>5
  <1> QED BY <1>2, <1>6 DEF SlipInv

LEMMA ExchangeMovesKeeps ==
    ASSUME SlipInv,
           \/ \E m \in LegMarkets, quote \in LegQuotes : LegMoves(m, quote)
           \/ \E t \in Combos, quote \in ComboQuotes : ComboMoves(t, quote)
    PROVE  SlipInv'
  <1>1. /\ spExchange' = [x \in {"leg", "combo"} |-> spExchange'[x]]
        /\ spExchange'.leg \in [LegMarkets -> QuotesSeen]
        /\ spExchange'.combo \in [Combos -> QuotesSeen]
    BY DEF QuotesSeen, SlipInv, LegMoves, ComboMoves
  <1>2. spMoves' \in 0..MaxMoves /\ UNCHANGED <<spClock, spFiles, spRun, spPayload, spShown>>
    BY SlipAssumption DEF SlipInv, LegMoves, ComboMoves
  <1> QED BY <1>1, <1>2 DEF SlipInv, spFiles

LEMMA StartBuildKeeps == ASSUME SlipInv, StartBuild PROVE SlipInv'
  <1>1. /\ Len(ComboPages) \in Nat /\ Len(ComboPages) > 0
        /\ Len(ComboPages[1]) \in Nat /\ Len(ComboPages[1]) > 0
    <2>1. ComboPages \in Seq(Seq(SUBSET DOMAIN ComboLegs)) /\ Len(ComboPages) > 0
      BY SlipAssumption
    <2>2. 1 \in DOMAIN ComboPages BY <2>1
    <2>3. ComboPages[1] \in Seq(SUBSET DOMAIN ComboLegs) /\ ComboPages[1] # <<>>
      BY <2>1, <2>2, SlipAssumption
    <2> QED BY <2>1, <2>3
  <1>2. RunIsDated(spRun', spClock')
    <2>1. DOMAIN spRun'.combos = {} /\ DOMAIN spRun'.legs = {} BY DEF StartBuild
    <2>2. spRun' = [x \in RunFields |-> spRun'[x]] BY DEF StartBuild, RunFields
    <2> QED BY <1>1, <2>1, <2>2 DEF StartBuild, SlipInv, RunIsDated, RunShape
  <1> QED BY <1>2 DEF SlipInv, StartBuild, spFiles

LEMMA SlipPropertiesFollow ==
    ASSUME SlipInv
    PROVE  SummaryMatchesSlips /\ ShownSlipsAreListed /\ spTypeOK
  <1>1. SummaryMatchesSlips BY DEF SlipInv, SummaryAgrees, SummaryMatchesSlips
  <1>2. ShownSlipsAreListed
    <2>1. ShowsListed(spShown) BY Zenon DEF SlipInv
    <2> QED BY <2>1, ZenonT(120) DEF ShowsListed, SlipIsListed, ShownSlipsAreListed
  <1>3. spTypeOK
    <2>1. \A x \in DOMAIN spPageFiles : spPageFiles[x].fetched \in 0..spClock
      BY DEF SlipInv, PageFilesAre
    <2>2. \A x \in DOMAIN spLegFiles : spLegFiles[x].fetched \in 0..spClock
      BY DEF SlipInv, LegFilesAre
    <2>3. spRun.at \in {"idle", "pages", "legs"} BY DEF SlipInv, RunIsDated, RunShape, NoRun
    <2>4. spPayload # NoPayload => spPayload.generated \in 0..spClock
      BY DEF SlipInv, PayloadIsListed
    <2>5. spClock \in 0..MaxSlipClock /\ spMoves \in 0..MaxMoves BY DEF SlipInv
    <2> QED BY <2>1, <2>2, <2>3, <2>4, <2>5, Zenon DEF spTypeOK
  <1> QED BY <1>1, <1>2, <1>3

\* A copy a request was answered now is dated, and an older one stays so.
FetchedNow(copy, run, state, clock) ==
    /\ copy \in FetchedCopies(clock) /\ copy.state = state
    /\ state = "fresh" => clock - copy.fetched <= SlipTtl

\* A run goes on with more copies.
LEMMA RunGoesOn ==
    ASSUME NEW clock \in Nat, NEW run, RunIsDated(run, clock), NEW state \in {"fresh", "stale"},
           NEW next, next = [x \in RunFields |-> next[x]],
           next.at = run.at, next.started = run.started, next.query = run.query,
           next.page = run.page, next.stale = run.stale, DOMAIN next.combos \subseteq Combos,
           \A t \in DOMAIN next.combos :
              \/ CopyIsDated(next.combos[t], run, clock)
              \/ FetchedNow(next.combos[t], run, state, clock),
           \A m \in DOMAIN next.legs :
              \/ next.legs[m] = NoCopy
              \/ CopyIsDated(next.legs[m], run, clock)
              \/ FetchedNow(next.legs[m], run, state, clock)
    PROVE  RunIsDated(Staler(next, state), clock)
  <1> DEFINE q == Staler(next, state)
  <1>1. /\ q = [x \in RunFields |-> q[x]]
        /\ q.at = run.at /\ q.started = run.started /\ q.query = run.query /\ q.page = run.page
        /\ q.combos = next.combos /\ q.legs = next.legs
        /\ q.stale = IF state = "stale" THEN run.stale + 1 ELSE run.stale
    BY DEF Staler, RunFields
  <1>2. run.started \in 0..clock /\ run.stale \in Nat BY DEF RunIsDated, RunShape
  <1>3. ASSUME NEW copy, CopyIsDated(copy, run, clock) \/ FetchedNow(copy, run, state, clock)
        PROVE  CopyIsDated(copy, q, clock)
    <2>1. SlipTtl \in Nat BY SlipAssumption
    <2> QED BY <1>1, <1>2, <1>3, <2>1 DEF CopyIsDated, FetchedNow, FetchedCopies
  <1> HIDE DEF q
  <1>4. RunShape(q, clock)
    <2>1. /\ run.at \in {"pages", "legs"} /\ run.query \in 1..Len(ComboPages)
          /\ run.page \in 1..Len(ComboPages[run.query])
      BY DEF RunIsDated, RunShape
    <2>2. q.stale \in Nat BY <1>1, <1>2
    <2> QED BY <1>1, <1>2, <2>1, <2>2 DEF RunShape
  <1>5. RunIsDated(q, clock) BY <1>1, <1>3, <1>4 DEF RunIsDated
  <1> QED BY <1>5 DEF q

LEMMA NextPageIsDated ==
    ASSUME NEW clock \in Nat, NEW run, RunIsDated(run, clock)
    PROVE  RunIsDated(NextPage(run), clock)
  <1> DEFINE next == NextPage(run)
  <1>1. /\ next = [x \in RunFields |-> next[x]] /\ next.at \in {"pages", "legs"}
        /\ next.started = run.started /\ next.combos = run.combos /\ next.legs = run.legs
        /\ next.stale = run.stale
    BY DEF NextPage, RunIsDated, RunShape, RunFields
  <1>2. next.query \in 1..Len(ComboPages) /\ next.page \in 1..Len(ComboPages[next.query])
    <2>1. /\ ComboPages \in Seq(Seq(SUBSET DOMAIN ComboLegs))
          /\ run.query \in 1..Len(ComboPages) /\ run.page \in 1..Len(ComboPages[run.query])
          /\ run = [x \in RunFields |-> run[x]]
      BY SlipAssumption DEF RunIsDated, RunShape
    <2>2. \A q \in 1..Len(ComboPages) :
             Len(ComboPages[q]) \in Nat /\ Len(ComboPages[q]) > 0
      <3> TAKE q \in 1..Len(ComboPages)
      <3>1. q \in DOMAIN ComboPages BY <2>1
      <3>2. ComboPages[q] \in Seq(SUBSET DOMAIN ComboLegs) /\ ComboPages[q] # <<>>
        BY <2>1, <3>1, SlipAssumption
      <3> QED BY <3>2
    <2>3. Len(ComboPages) \in Nat BY <2>1
    <2>4. CASE run.page < Len(ComboPages[run.query]) /\ run.page < PageCaps[run.query]
      <3>1. next.query = run.query /\ next.page = run.page + 1
        BY <2>1, <2>4 DEF NextPage, RunFields
      <3> HIDE DEF next
      <3> QED BY <2>1, <2>2, <2>4, <3>1
    <2>5. CASE /\ ~(run.page < Len(ComboPages[run.query]) /\ run.page < PageCaps[run.query])
               /\ run.query < Len(ComboPages)
      <3>1. next.query = run.query + 1 /\ next.page = 1
        BY <2>1, <2>5 DEF NextPage, RunFields
      <3>2. next.query \in 1..Len(ComboPages) BY <2>1, <2>3, <2>5, <3>1
      <3> HIDE DEF next
      <3> QED BY <2>2, <3>1, <3>2
    <2>6. CASE /\ ~(run.page < Len(ComboPages[run.query]) /\ run.page < PageCaps[run.query])
               /\ ~(run.query < Len(ComboPages))
      <3>1. next.query = run.query /\ next.page = run.page
        BY <2>1, <2>6 DEF NextPage, RunFields
      <3> HIDE DEF next
      <3> QED BY <2>1, <3>1
    <2> QED BY <2>4, <2>5, <2>6
  <1> HIDE DEF next
  <1>3. RunIsDated(next, clock) BY <1>1, <1>2 DEF RunIsDated, RunShape, CopyIsDated
  <1> QED BY <1>3 DEF next

LEMMA FetchPageKeeps ==
    ASSUME SlipInv, NEW state \in AnswerStates, FetchPage(state)
    PROVE  SlipInv'
  <1>1. spClock \in 0..spClock /\ UNCHANGED <<spClock, spExchange, spMoves, spLegFiles, spPayload, spShown>>
    BY DEF SlipInv, FetchPage
  <1>2. RunIsDated(spRun, spClock) BY DEF SlipInv, FetchPage, NoRun
  <1> DEFINE request == <<spRun.query, spRun.page>>
             listing == Listing(spRun.query, spRun.page)
  <1>3. DOMAIN listing \subseteq Combos /\ \A t \in DOMAIN listing : listing[t] \in QuotesSeen
    <2>1. /\ ComboPages \in Seq(Seq(SUBSET DOMAIN ComboLegs))
          /\ spRun.query \in 1..Len(ComboPages) /\ spRun.page \in 1..Len(ComboPages[spRun.query])
      BY <1>2, SlipAssumption DEF RunIsDated, RunShape
    <2>2. spRun.query \in DOMAIN ComboPages BY <2>1
    <2>3. ComboPages[spRun.query] \in Seq(SUBSET DOMAIN ComboLegs) BY <2>1, <2>2
    <2>4. spRun.page \in DOMAIN ComboPages[spRun.query] BY <2>1, <2>3
    <2> QED BY <2>2, <2>4, ListingsAreSeen
  <1>4. PageFilesAre(spPageFiles, spClock) BY DEF SlipInv
  <1> DEFINE gone(answer) == [spRun EXCEPT !.combos = Over(CopiesOf(answer), spRun.combos)]
  <1> HIDE DEF request, listing
  <1>5. PICK answer \in Answers(spPageFiles, request, listing) :
           /\ answer.state = state /\ spPageFiles' = Kept(spPageFiles, request, answer)
           /\ spRun' = IF state = "missing" THEN NoRun
                       ELSE NextPage(Staler(gone(answer), state))
    BY DEF FetchPage, request, listing
  <1>6. state # "missing" =>
           /\ state \in {"fresh", "stale"} /\ answer.fetched \in 0..spClock
           /\ state = "fresh" => spClock - answer.fetched <= SlipTtl
           /\ DOMAIN answer.said \subseteq Combos
           /\ \A t \in DOMAIN answer.said : answer.said[t] \in QuotesSeen
    <2>1. \/ answer = NoCopy
          \/ answer.state = "fresh" /\ answer.said = listing /\ answer.fetched = spClock
          \/ /\ request \in DOMAIN spPageFiles /\ answer.state \in {"fresh", "stale"}
             /\ answer.said = spPageFiles[request].said
             /\ answer.fetched = spPageFiles[request].fetched
             /\ answer.state = "fresh" => spClock - answer.fetched <= SlipTtl
      <3>1. request \in DOMAIN spPageFiles =>
               spPageFiles[request] = [said |-> spPageFiles[request].said,
                                       fetched |-> spPageFiles[request].fetched]
        BY <1>4 DEF PageFilesAre
      <3> QED BY <1>5, <3>1, AnswersAre
    <2>2. NoCopy.state = "missing" BY DEF NoCopy
    <2>3. spClock - spClock <= SlipTtl BY <1>1, SlipAssumption
    <2>4. CASE answer.state = "fresh" /\ answer.said = listing /\ answer.fetched = spClock
      BY <1>1, <1>3, <1>5, <2>3, <2>4
    <2>5. CASE /\ request \in DOMAIN spPageFiles /\ answer.state \in {"fresh", "stale"}
               /\ answer.said = spPageFiles[request].said
               /\ answer.fetched = spPageFiles[request].fetched
               /\ answer.state = "fresh" => spClock - answer.fetched <= SlipTtl
      BY <1>4, <1>5, <2>5 DEF PageFilesAre
    <2> QED BY <1>5, <2>1, <2>2, <2>4, <2>5
  <1>7. PageFilesAre(spPageFiles', spClock)
    <2> DEFINE file == [said |-> answer.said, fetched |-> answer.fetched]
    <2>1. CASE SlipTtl > 0 /\ answer.state = "fresh"
      <3>1. spPageFiles' = Over([x \in {request} |-> file], spPageFiles) BY <1>5, <2>1 DEF Kept
      <3>2. PageFileIs(file, spClock) BY <1>5, <1>6, <2>1 DEF PageFileIs
      <3> HIDE DEF file
      <3> QED BY <1>4, <3>1, <3>2, PageFilesGrow
    <2>2. CASE ~(SlipTtl > 0 /\ answer.state = "fresh")
      BY <1>4, <1>5, <2>2 DEF Kept
    <2> QED BY <2>1, <2>2
  <1>8. spRun' = NoRun \/ RunIsDated(spRun', spClock)
    <2>1. CASE state = "missing" BY <1>5, <2>1
    <2>2. CASE state # "missing"
      <3> DEFINE fetched == CopiesOf(answer)
                 next == gone(answer)
      <3>1. DOMAIN fetched = DOMAIN answer.said BY DEF CopiesOf
      <3>2. ASSUME NEW t \in DOMAIN fetched PROVE FetchedNow(fetched[t], spRun, state, spClock)
        <4>1. fetched[t] = [quote |-> answer.said[t], fetched |-> answer.fetched, state |-> state]
          BY <1>5, <3>1 DEF CopiesOf
        <4>2. answer.said[t] \in QuotesSeen /\ answer.fetched \in 0..spClock BY <1>6, <2>2, <3>1
        <4> HIDE DEF fetched
        <4> QED BY <1>6, <2>2, <4>1, <4>2 DEF FetchedNow, FetchedCopies
      <3>3. /\ next = [x \in RunFields |-> next[x]]
            /\ next.at = spRun.at /\ next.started = spRun.started
            /\ next.query = spRun.query /\ next.page = spRun.page
            /\ next.stale = spRun.stale /\ next.legs = spRun.legs
            /\ next.combos = Over(fetched, spRun.combos)
        <4> HIDE DEF fetched
        <4>1. next = [spRun EXCEPT !.combos = Over(fetched, spRun.combos)] BY DEF fetched
        <4> QED BY <1>2, <4>1 DEF RunIsDated, RunShape, RunFields
      <3>4. spRun' = NextPage(Staler(next, state)) BY <1>5, <2>2
      <3> HIDE DEF next, fetched
      <3>5. /\ DOMAIN next.combos \subseteq Combos
            /\ \A t \in DOMAIN next.combos :
                  \/ CopyIsDated(next.combos[t], spRun, spClock)
                  \/ FetchedNow(next.combos[t], spRun, state, spClock)
        <4> DEFINE old == spRun.combos
                   all == next.combos
        <4>1. /\ DOMAIN old \subseteq Combos
              /\ \A t \in DOMAIN old : CopyIsDated(old[t], spRun, spClock)
          BY <1>2 DEF RunIsDated, RunShape
        <4>2. all = Over(fetched, old) BY <3>3
        <4> HIDE DEF all, old
        <4>3. DOMAIN all = DOMAIN fetched \cup DOMAIN old BY <4>2 DEF Over
        <4>4. \A t \in DOMAIN all : all[t] = IF t \in DOMAIN fetched THEN fetched[t] ELSE old[t]
          BY <4>2 DEF Over
        <4>5. \A t \in DOMAIN all : \/ CopyIsDated(all[t], spRun, spClock)
                                   \/ FetchedNow(all[t], spRun, state, spClock)
          BY <3>2, <4>1, <4>3, <4>4, Zenon
        <4> QED BY <1>6, <2>2, <3>1, <4>1, <4>3, <4>5 DEF all
      <3>6. RunIsDated(Staler(next, state), spClock)
        <4>1. \A m \in DOMAIN next.legs : next.legs[m] = NoCopy \/ CopyIsDated(next.legs[m], spRun, spClock)
          BY <1>2, <3>3 DEF RunIsDated
        <4>2. spClock \in Nat BY <1>1
        <4> QED BY <1>2, <1>6, <2>2, <3>3, <3>5, <4>1, <4>2, RunGoesOn
      <3>7. spClock \in Nat BY <1>1
      <3> QED BY <3>4, <3>6, <3>7, NextPageIsDated
    <2> QED BY <2>1, <2>2
  <1> QED BY <1>1, <1>7, <1>8 DEF SlipInv

LEMMA FetchLegKeeps ==
    ASSUME SlipInv, NEW state \in AnswerStates, FetchLeg(state)
    PROVE  SlipInv'
  <1>1. spClock \in 0..spClock /\ UNCHANGED <<spClock, spExchange, spMoves, spPageFiles, spPayload, spShown>>
    BY DEF SlipInv, FetchLeg
  <1>2. RunIsDated(spRun, spClock) /\ spRun.at = "legs" BY DEF SlipInv, FetchLeg, NoRun
  <1> DEFINE m == CHOOSE w \in Wanted(spRun) : w \notin DOMAIN spRun.legs
             next(c) == [spRun EXCEPT !.legs = Over([w \in {m} |-> c], spRun.legs)]
  <1>3. m \in Wanted(spRun) BY DEF FetchLeg
  <1>4. m \in LegMarkets
    <2>1. PICK t \in Combos : \E i \in DOMAIN ComboLegs[t] : m = ComboLegs[t][i].market
      BY <1>2, <1>3 DEF Wanted, RunIsDated, RunShape
    <2>2. ComboLegs[t] \in Seq([market : DOMAIN LegFacts, side : {"yes", "no"}])
      BY SlipAssumption DEF Combos
    <2>3. \A i \in DOMAIN ComboLegs[t] :
             ComboLegs[t][i] \in [market : DOMAIN LegFacts, side : {"yes", "no"}]
      BY <2>2, ElementsBelong
    <2> HIDE DEF m
    <2> QED BY <2>1, <2>3 DEF LegMarkets
  <1>5. LegFilesAre(spLegFiles, spClock) /\ spExchange.leg[m] \in QuotesSeen
    BY <1>4 DEF SlipInv
  <1>6. PICK answer \in Answers(spLegFiles, m, spExchange.leg[m]) :
           /\ answer.state = state /\ spLegFiles' = Kept(spLegFiles, m, answer)
           /\ spRun' = Staler(next(CopyOf(answer)), state)
    BY DEF FetchLeg
  <1> HIDE DEF m
  <1>7. \/ answer = NoCopy
        \/ /\ state \in {"fresh", "stale"} /\ answer.fetched \in 0..spClock
           /\ state = "fresh" => spClock - answer.fetched <= SlipTtl
           /\ answer.said \in QuotesSeen
    <2>1. \/ answer = NoCopy
          \/ answer.state = "fresh" /\ answer.said = spExchange.leg[m] /\ answer.fetched = spClock
          \/ /\ m \in DOMAIN spLegFiles /\ answer.state \in {"fresh", "stale"}
             /\ answer.said = spLegFiles[m].said /\ answer.fetched = spLegFiles[m].fetched
             /\ answer.state = "fresh" => spClock - answer.fetched <= SlipTtl
      <3>1. m \in DOMAIN spLegFiles =>
               spLegFiles[m] = [said |-> spLegFiles[m].said, fetched |-> spLegFiles[m].fetched]
        BY <1>5 DEF LegFilesAre
      <3> QED BY <3>1, AnswersAre
    <2>2. spClock - spClock <= SlipTtl BY <1>1, SlipAssumption
    <2>3. CASE answer.state = "fresh" /\ answer.said = spExchange.leg[m] /\ answer.fetched = spClock
      BY <1>1, <1>5, <1>6, <2>2, <2>3
    <2>4. CASE /\ m \in DOMAIN spLegFiles /\ answer.state \in {"fresh", "stale"}
               /\ answer.said = spLegFiles[m].said /\ answer.fetched = spLegFiles[m].fetched
               /\ answer.state = "fresh" => spClock - answer.fetched <= SlipTtl
      BY <1>5, <1>6, <2>4 DEF LegFilesAre
    <2> QED BY <2>1, <2>3, <2>4
  <1>8. NoCopy.state = "missing" BY DEF NoCopy
  <1>9. LegFilesAre(spLegFiles', spClock)
    <2> DEFINE file == [said |-> answer.said, fetched |-> answer.fetched]
    <2>1. CASE SlipTtl > 0 /\ answer.state = "fresh"
      <3>1. spLegFiles' = Over([x \in {m} |-> file], spLegFiles) BY <1>6, <2>1 DEF Kept
      <3>2. LegFileIs(file, spClock) BY <1>6, <1>7, <1>8, <2>1 DEF LegFileIs
      <3> HIDE DEF file
      <3> QED BY <1>5, <3>1, <3>2, LegFilesGrow
    <2>2. CASE ~(SlipTtl > 0 /\ answer.state = "fresh")
      BY <1>5, <1>6, <2>2 DEF Kept
    <2> QED BY <2>1, <2>2
  <1> DEFINE c == CopyOf(answer)
             kind == IF state = "missing" THEN "fresh" ELSE state
  <1>10. kind \in {"fresh", "stale"} BY DEF AnswerStates
  <1>11. c = NoCopy \/ FetchedNow(c, spRun, kind, spClock)
    <2>1. CASE answer = NoCopy BY <2>1 DEF CopyOf
    <2>2. CASE answer # NoCopy
      <3>1. c = [quote |-> answer.said, fetched |-> answer.fetched, state |-> state]
        BY <1>6, <2>2 DEF CopyOf
      <3>2. kind = state BY <1>7, <2>2
      <3> HIDE DEF c
      <3> QED BY <1>7, <2>2, <3>1, <3>2 DEF FetchedNow, FetchedCopies
    <2> QED BY <2>1, <2>2
  <1> HIDE DEF c
  <1> DEFINE gone == next(c)
  <1>12. /\ gone = [x \in RunFields |-> gone[x]]
        /\ gone.at = spRun.at /\ gone.started = spRun.started
        /\ gone.query = spRun.query /\ gone.page = spRun.page
        /\ gone.stale = spRun.stale /\ gone.combos = spRun.combos
        /\ gone.legs = Over([w \in {m} |-> c], spRun.legs)
    BY <1>2 DEF RunIsDated, RunShape, RunFields
  <1>13. spRun' = Staler(gone, kind) BY <1>6 DEF Staler, c
  <1> HIDE DEF gone, kind
  <1>14. \A w \in DOMAIN gone.legs :
            \/ gone.legs[w] = NoCopy
            \/ CopyIsDated(gone.legs[w], spRun, spClock)
            \/ FetchedNow(gone.legs[w], spRun, kind, spClock)
    BY <1>2, <1>11, <1>12 DEF Over, RunIsDated
  <1>15. /\ DOMAIN gone.combos \subseteq Combos
         /\ \A t \in DOMAIN gone.combos : CopyIsDated(gone.combos[t], spRun, spClock)
    BY <1>2, <1>12 DEF RunIsDated, RunShape
  <1>16. RunIsDated(Staler(gone, kind), spClock)
    <2>1. spClock \in Nat BY <1>1
    <2> QED BY <1>2, <1>10, <1>12, <1>14, <1>15, <2>1, RunGoesOn
  <1> QED BY <1>1, <1>9, <1>13, <1>16 DEF SlipInv

LEMMA LegsAreWanted ==
    ASSUME NEW run, NEW t \in (DOMAIN run.combos) \cap Sporting, NEW i \in DOMAIN ComboLegs[t]
    PROVE  ComboLegs[t][i].market \in Wanted(run)
  <1> DEFINE markets(u) == {ComboLegs[u][j].market : j \in DOMAIN ComboLegs[u]}
  <1>1. ComboLegs[t][i].market \in markets(t) OBVIOUS
  <1>2. markets(t) \in {markets(u) : u \in (DOMAIN run.combos) \cap Sporting} OBVIOUS
  <1> HIDE DEF markets
  <1>3. ComboLegs[t][i].market \in UNION {markets(u) : u \in (DOMAIN run.combos) \cap Sporting}
    BY <1>1, <1>2
  <1> QED BY <1>3 DEF Wanted, markets

\* The legs of a market are those of its combo, with what was fetched of theirs.
LEMMA LegsAre ==
    ASSUME NEW clock \in Nat, NEW run, RunIsDated(run, clock), NEW t \in DOMAIN run.combos,
           NEW i \in DOMAIN Legs(run, t),
           t \in Sporting, Wanted(run) \subseteq DOMAIN run.legs
    PROVE  LET leg == Legs(run, t)[i]
           IN  /\ i \in DOMAIN ComboLegs[t]
               /\ leg.market = ComboLegs[t][i].market /\ leg.side = ComboLegs[t][i].side
               /\ leg.market \in LegMarkets /\ leg.side \in {"yes", "no"}
               /\ leg.probability \in Int
               /\ leg.status \in OpenStates /\ run.stale = 0 =>
                     leg.state = "fresh" /\ leg.fetched \in Int /\ run.started - SlipTtl <= leg.fetched
  <1> DEFINE part == ComboLegs[t][i]
             copy == run.legs[part.market]
             quote == IF copy = NoCopy THEN NoSide ELSE copy.quote[part.side]
             leg == [market |-> part.market, side |-> part.side,
                     bid |-> quote.bid, ask |-> quote.ask, probability |-> Midpoint(quote),
                     spread |-> leg_spread_cents(quote),
                     status |-> IF copy = NoCopy THEN "missing" ELSE copy.quote.status,
                     fetched |-> IF copy = NoCopy THEN -1 ELSE copy.fetched,
                     state |-> copy.state]
  <1>1. Legs(run, t)[i] = leg /\ i \in DOMAIN ComboLegs[t] BY Zenon DEF Legs
  <1>2. t \in Combos BY DEF RunIsDated, RunShape
  <1>3. part \in [market : LegMarkets, side : {"yes", "no"}]
    <2>1. ComboLegs[t] \in Seq([market : DOMAIN LegFacts, side : {"yes", "no"}])
      BY <1>2, SlipAssumption DEF Combos
    <2> QED BY <1>1, <2>1, ElementsBelong, Zenon DEF LegMarkets
  <1>4. part.market \in DOMAIN run.legs
    <2>1. part.market \in Wanted(run) BY <1>1, LegsAreWanted, Zenon
    <2> QED BY <2>1
  <1> HIDE DEF part
  <1>5. copy = NoCopy \/ CopyIsDated(copy, run, clock) BY <1>4 DEF RunIsDated
  <1>6. quote.bid \in Int /\ quote.ask \in Int
    <2>1. CASE copy = NoCopy BY <2>1 DEF NoSide, NoQuote
    <2>2. CASE copy # NoCopy
      <3>1. copy.quote \in QuotesSeen BY <1>5, <2>2 DEF CopyIsDated, FetchedCopies
      <3>2. part.side = "yes" \/ part.side = "no" BY <1>3
      <3> HIDE DEF copy
      <3>3. quote = copy.quote.yes \/ quote = copy.quote.no BY <2>2, <3>2
      <3> QED BY <3>1, <3>3, QuotesAreNumbers
    <2> QED BY <2>1, <2>2
  <1>7. Midpoint(quote) \in Int
    <2> HIDE DEF quote
    <2> QED BY <1>6 DEF Midpoint, NoQuote
  <1>8. leg.status \in OpenStates /\ run.stale = 0 =>
           leg.state = "fresh" /\ leg.fetched \in Int /\ run.started - SlipTtl <= leg.fetched
    <2>1. CASE copy = NoCopy BY <2>1 DEF OpenStates
    <2>2. CASE copy # NoCopy
      <3>1. /\ copy.fetched \in Int
            /\ run.stale = 0 => copy.state = "fresh" /\ run.started - SlipTtl <= copy.fetched
        BY <1>5, <2>2 DEF CopyIsDated, FetchedCopies
      <3>2. leg.state = copy.state /\ leg.fetched = copy.fetched BY <2>2
      <3> HIDE DEF leg, copy
      <3> QED BY <3>1, <3>2
    <2> QED BY <2>1, <2>2
  <1>9. /\ leg.market = part.market /\ leg.side = part.side
        /\ leg.probability = Midpoint(quote)
    BY DEF Midpoint
  <1>10. part.market \in LegMarkets /\ part.side \in {"yes", "no"} BY <1>3
  <1> HIDE DEF leg, quote, copy
  <1> QED BY <1>1, <1>7, <1>8, <1>9, <1>10 DEF part

\* A leg that passes is no under where many runs are scored, and above its floor.
LEMMA PassingLegs ==
    ASSUME NEW leg, NEW market, NEW low \in Int, NEW high, NEW supported,
           leg.market \in LegMarkets, leg.side \in {"yes", "no"}, leg.probability \in Int,
           LegPasses(leg, market, low, high, supported, TRUE)
    PROVE  /\ leg.status \in OpenStates /\ leg.ask # NoQuote
           /\ LegFacts[leg.market].line >= 105 => leg.side = "yes"
           /\ LegFacts[leg.market].line >= 125 => leg.probability >= 180
  <1> DEFINE fact == LegFacts[leg.market]
  <1>1. fact.line \in Nat BY SlipAssumption DEF LegMarkets
  <1>2. leg.status \in OpenStates /\ leg.ask # NoQuote /\ ~Risky(leg)
    BY DEF LegPasses, Rejected
  <1>3. fact.line >= 105 => leg.side = "yes"
    BY <1>1, <1>2 DEF Risky, HighScoring
  <1>4. fact.line >= 125 => leg.probability >= 180
    <2> SUFFICES ASSUME fact.line >= 125 PROVE leg.probability >= 180
      OBVIOUS
    <2>1. leg.side = "yes" BY <1>1, <1>3
    <2>2. required_leg_probability(leg, low) = IF 180 > low THEN 180 ELSE low
      <3>1. ~(leg.side # "yes" \/ fact.line = 0) BY <1>1, <2>1
      <3>2. leg.side = "yes" /\ fact.line > 0 /\ (fact.colorado \/ fact.line >= 125) BY <1>1, <2>1
      <3>3. ~(fact.line \in 1..124) BY <1>1
      <3> HIDE DEF fact
      <3> QED BY <3>1, <3>2, <3>3 DEF required_leg_probability, fact
    <2>3. required_leg_probability(leg, low) <= leg.probability BY Zenon DEF LegPasses
    <2> QED BY <2>2, <2>3
  <1> QED BY <1>2, <1>3, <1>4

\* A candidate has the legs of a market that is open, priced and wholly fetched.
LEMMA CandidatesAreListed ==
    ASSUME NEW clock \in Nat, NEW run, RunIsDated(run, clock), run.stale = 0,
           Wanted(run) \subseteq DOMAIN run.legs, NEW tier \in Tiers,
           NEW slip \in Candidates(ComboMarkets(run), tier)
    PROVE  SlipIsListed(slip, tier, run.started) /\ Authoritative(slip)
  <1>1. PICK market \in ComboMarkets(run) :
           /\ Verified(market, TierLow[tier], TierHigh[tier], TierSupported[tier], TRUE)
           /\ slip = ListedSlip(market, tier)
    BY DEF Candidates
  <1>2. PICK t \in (DOMAIN run.combos) \cap Sporting : market = Enriched(run, t)
    BY DEF ComboMarkets
  <1> DEFINE legs == Legs(run, t)
             copy == run.combos[t]
  <1>3. /\ market.ticker = t /\ market.quote = copy.quote /\ market.fetched = copy.fetched
        /\ market.legs = legs
        /\ market.ready => legs # <<>> /\ joint_basis(legs) # "unmodellable"
    BY <1>2 DEF Enriched
  <1>4. /\ market_is_tradable(market.quote) /\ market.ready
        /\ \A i \in DOMAIN legs :
             LegPasses(legs[i], market, TierLow[tier], TierHigh[tier], TierSupported[tier], TRUE)
        /\ \A i, j \in DOMAIN legs :
             LegFacts[legs[i].market].key = LegFacts[legs[j].market].key => i = j
    <2> HIDE DEF legs, copy
    <2>1. market_is_tradable(market.quote) /\ market.ready BY <1>1 DEF Verified
    <2>2. \A i \in DOMAIN market.legs : LegPasses(market.legs[i], market, TierLow[tier],
                                                 TierHigh[tier], TierSupported[tier], TRUE)
      BY <1>1 DEF Verified
    <2>3. \A i, j \in DOMAIN market.legs :
             LegFacts[market.legs[i].market].key = LegFacts[market.legs[j].market].key => i = j
      BY <1>1 DEF Verified
    <2> QED BY <1>3, <2>1, <2>2, <2>3
  <1>5. CopyIsDated(copy, run, clock) /\ t \in Combos BY DEF RunIsDated, RunShape
  <1>6. copy.quote \in QuotesSeen /\ copy.fetched \in Int /\ run.started - SlipTtl <= copy.fetched
    BY <1>5 DEF CopyIsDated, FetchedCopies
  <1>7. copy.quote.yes.ask \in 1..99
    <2> DEFINE ask == copy.quote.yes.ask
    <2>1. ask \in Int BY <1>6, QuotesAreNumbers
    <2>2. 0 < ask /\ ask < 100 BY <1>3, <1>4 DEF market_is_tradable
    <2> HIDE DEF ask
    <2>3. ask \in 1..99 BY <2>1, <2>2
    <2> QED BY <2>3 DEF ask
  <1>8. slip.ticker = t /\ slip.ask = copy.quote.yes.ask /\ slip.fetched = copy.fetched
        /\ slip.basis = joint_basis(legs)
    BY <1>1, <1>3 DEF ListedSlip
  <1>9. DOMAIN legs = DOMAIN ComboLegs[t] /\ DOMAIN slip.legs = DOMAIN legs
    BY <1>1, <1>3, Zenon DEF Legs, ListedSlip
  <1>10. ComboLegs[t] \in Seq([market : DOMAIN LegFacts, side : {"yes", "no"}])
    BY <1>5, SlipAssumption DEF Combos
  <1>11. ASSUME NEW i \in DOMAIN legs
         PROVE  /\ slip.legs[i].market = legs[i].market /\ slip.legs[i].side = legs[i].side
                /\ slip.legs[i].state = legs[i].state /\ slip.legs[i].status = legs[i].status
                /\ slip.legs[i].fetched = legs[i].fetched /\ slip.legs[i].ask = legs[i].ask
                /\ tier # "research_edge" => slip.legs[i].probability = legs[i].probability
    <2>1. CASE tier # "research_edge"
      <3>1. slip.legs = legs BY <1>1, <1>3, <2>1 DEF ListedSlip
      <3> HIDE DEF legs
      <3> QED BY <3>1
    <2>2. CASE tier = "research_edge"
      <3> DEFINE research == ResearchOf(legs[i]).probability
      <3>1. slip.legs[i] = [legs[i] EXCEPT !.probability = research]
        BY <1>1, <1>3, <2>2 DEF ListedSlip
      <3>2. PICK leg : leg = legs[i] OBVIOUS
      <3>3. leg = [f \in {"market", "side", "bid", "ask", "probability", "spread", "status",
                          "fetched", "state"} |-> leg[f]]
        BY <3>2, Zenon DEF Legs
      <3>4. slip.legs[i] = [leg EXCEPT !.probability = research] BY <3>1, <3>2
      <3> HIDE DEF research, legs
      <3>5. /\ slip.legs[i].market = leg.market /\ slip.legs[i].side = leg.side
            /\ slip.legs[i].state = leg.state /\ slip.legs[i].status = leg.status
            /\ slip.legs[i].fetched = leg.fetched /\ slip.legs[i].ask = leg.ask
        BY <3>3, <3>4
      <3> QED BY <2>2, <3>2, <3>5
    <2> QED BY <2>1, <2>2
  <1>12. TierLow[tier] \in Int BY DEF TierLow, Tiers
  <1>13. ASSUME NEW i \in DOMAIN legs
         PROVE  /\ legs[i].market = ComboLegs[t][i].market /\ legs[i].side = ComboLegs[t][i].side
                /\ legs[i].status \in OpenStates /\ legs[i].ask # NoQuote
                /\ legs[i].state = "fresh" /\ legs[i].fetched \in Int
                /\ run.started - SlipTtl <= legs[i].fetched
                /\ LegFacts[legs[i].market].line >= 105 => legs[i].side = "yes"
                /\ LegFacts[legs[i].market].line >= 125 => legs[i].probability >= 180
    <2>1. /\ legs[i].market = ComboLegs[t][i].market /\ legs[i].side = ComboLegs[t][i].side
          /\ legs[i].market \in LegMarkets /\ legs[i].side \in {"yes", "no"}
          /\ legs[i].probability \in Int
          /\ legs[i].status \in OpenStates /\ run.stale = 0 =>
                legs[i].state = "fresh" /\ legs[i].fetched \in Int /\ run.started - SlipTtl <= legs[i].fetched
      BY LegsAre
    <2> DEFINE leg == legs[i]
    <2> HIDE DEF leg
    <2>2. LegPasses(leg, market, TierLow[tier], TierHigh[tier], TierSupported[tier], TRUE)
      BY <1>4 DEF leg
    <2>3. /\ leg.status \in OpenStates /\ leg.ask # NoQuote
          /\ LegFacts[leg.market].line >= 105 => leg.side = "yes"
          /\ LegFacts[leg.market].line >= 125 => leg.probability >= 180
      BY <1>12, <2>1, <2>2, PassingLegs DEF leg
    <2> QED BY <2>1, <2>3 DEF leg
  <1> HIDE DEF legs, copy
  <1>14. SlipIsListed(slip, tier, run.started)
    <2>1. Len(slip.legs) = Len(ComboLegs[t])
      <3>1. DOMAIN slip.legs = 1..Len(ComboLegs[t]) /\ Len(ComboLegs[t]) \in Nat BY <1>9, <1>10
      <3> QED BY <3>1
    <2>2. \A i, j \in DOMAIN slip.legs : i # j =>
             LegFacts[slip.legs[i].market].key # LegFacts[slip.legs[j].market].key
      BY <1>4, <1>9, <1>11
    <2>3. slip.basis # "unmodellable" BY <1>3, <1>4, <1>8
    <2>4. slip.ask \in 1..99 /\ run.started - SlipTtl <= slip.fetched BY <1>6, <1>7, <1>8
    <2>5. ASSUME NEW i \in DOMAIN slip.legs
          PROVE  /\ <<slip.legs[i].market, slip.legs[i].side>> =
                       <<ComboLegs[t][i].market, ComboLegs[t][i].side>>
                 /\ slip.legs[i].state = "fresh" /\ slip.legs[i].status \in {"active", "open"}
                 /\ slip.legs[i].fetched \in Int /\ run.started - SlipTtl <= slip.legs[i].fetched
                 /\ slip.legs[i].ask # NoQuote
                 /\ LegFacts[slip.legs[i].market].line >= 105 => slip.legs[i].side = "yes"
                 /\ tier # "research_edge" /\ LegFacts[slip.legs[i].market].line >= 125 =>
                       slip.legs[i].probability >= 180
      BY <1>9, <1>11, <1>13 DEF OpenStates
    <2> QED BY <1>8, <2>1, <2>2, <2>3, <2>4, <2>5 DEF SlipIsListed
  <1>15. Authoritative(slip)
    <2>1. slip.legs # <<>>
      <3>1. legs # <<>> BY <1>3, <1>4
      <3>2. legs = [i \in DOMAIN ComboLegs[t] |-> legs[i]] BY Zenon DEF legs, Legs
      <3>3. DOMAIN legs # {}
        <4> SUFFICES ASSUME DOMAIN legs = {} PROVE FALSE
          OBVIOUS
        <4>1. Len(ComboLegs[t]) \in Nat /\ DOMAIN ComboLegs[t] = {} /\ DOMAIN ComboLegs[t] = 1..Len(ComboLegs[t])
          BY <1>9, <1>10
        <4>2. legs \in [{} -> {}] BY <3>2, <4>1
        <4>3. <<>> \in [{} -> {}] BY SMT
        <4> QED BY <3>1, <4>2, <4>3
      <3> QED BY <1>9, <3>3
    <2>2. {<<slip.legs[i].market, slip.legs[i].side>> : i \in DOMAIN slip.legs}
            = {<<ComboLegs[t][i].market, ComboLegs[t][i].side>> : i \in DOMAIN ComboLegs[t]}
      BY <1>9, <1>11, <1>13
    <2>3. ComboLegs[t] = ComboLegs[slip.ticker] BY <1>8
    <2>4. slip.ticker \in Sporting /\ 0 < slip.ask /\ slip.ask < 100 BY <1>7, <1>8
    <2> DEFINE parts == ComboLegs[t]
    <2> HIDE DEF parts
    <2>5. {<<slip.legs[i].market, slip.legs[i].side>> : i \in DOMAIN slip.legs}
            = {<<parts[i].market, parts[i].side>> : i \in DOMAIN parts}
      BY <2>2 DEF parts
    <2>6. parts = ComboLegs[slip.ticker] BY <2>3 DEF parts
    <2> QED BY <2>1, <2>4, <2>5, <2>6 DEF Authoritative
  <1> QED BY <1>14, <1>15

LEMMA MarketsAreFinite ==
    ASSUME NEW clock, NEW run, RunIsDated(run, clock)
    PROVE  IsFiniteSet(ComboMarkets(run))
  <1> DEFINE tickers == (DOMAIN run.combos) \cap Sporting
             markets == ComboMarkets(run)
             f == [t \in tickers |-> Enriched(run, t)]
  <1>1. IsFiniteSet(tickers)
    <2>1. tickers \in SUBSET Combos BY DEF RunIsDated, RunShape
    <2> QED BY <2>1, FS_Subset, SlipAssumption DEF Combos
  <1>2. markets = {Enriched(run, t) : t \in tickers} BY DEF ComboMarkets
  <1> HIDE DEF markets, tickers
  <1>3. f \in Surjection(tickers, markets) BY <1>2 DEF Surjection
  <1> HIDE DEF f
  <1>4. IsFiniteSet(markets) BY <1>1, <1>3, FS_Surjection
  <1> QED BY <1>4 DEF markets

\* What is asked of a market for a slip is what is asked for the count, and a price.
LEMMA PricedMarketsPass ==
    ASSUME NEW market, NEW low, NEW high, NEW supported
    PROVE  Verified(market, low, high, supported, TRUE) <=>
              /\ market.quote.status \in OpenStates
              /\ Verified(market, low, high, supported, FALSE)
              /\ combo_public_quote_state(market.quote) = "tradable"
  <1>1. combo_public_quote_state(market.quote) = "tradable" <=> market_is_tradable(market.quote)
    BY DEF combo_public_quote_state
  <1>2. ASSUME market_is_tradable(market.quote), NEW leg
        PROVE  LegPasses(leg, market, low, high, supported, TRUE)
                 <=> LegPasses(leg, market, low, high, supported, FALSE)
    BY <1>2 DEF LegPasses, Rejected
  <1> QED BY <1>1, <1>2 DEF Verified

LEMMA EligibleAreBuilt ==
    ASSUME NEW clock, NEW run, RunIsDated(run, clock), NEW tier \in Tiers
    PROVE  LET markets == ComboMarkets(run)
               eligible == SourceSummary(markets).tiers[tier].eligible
           IN  /\ Candidates(markets, tier) # {} => eligible > 0
               /\ tier # "research_edge" /\ eligible > 0 => Candidates(markets, tier) # {}
  <1> DEFINE markets == ComboMarkets(run)
             counted(m) == Verified(m, TierLow[tier], TierHigh[tier], TierSupported[tier], FALSE)
             sized(m) == SlipLegs[tier][1] <= Len(m.legs) /\ Len(m.legs) <= SlipLegs[tier][2]
             listed == {m \in {m \in markets : m.quote.status \in OpenStates} : counted(m)}
             priced == {m \in {m \in listed : sized(m)} :
                           combo_public_quote_state(m.quote) = "tradable"}
             eligible == SourceSummary(markets).tiers[tier].eligible
  <1>1. eligible = Cardinality(priced) BY DEF SourceSummary
  <1>2. IsFiniteSet(priced)
    <2>1. IsFiniteSet(markets) BY MarketsAreFinite
    <2> HIDE DEF markets
    <2>2. priced \in SUBSET markets OBVIOUS
    <2> HIDE DEF priced
    <2> QED BY <2>1, <2>2, FS_Subset
  <1>3. eligible > 0 <=> priced # {}
    <2> HIDE DEF priced, eligible
    <2>1. Cardinality(priced) \in Nat BY <1>2, FS_CardinalityType
    <2>2. Cardinality(priced) = 0 <=> priced = {} BY <1>2, FS_EmptySet
    <2> QED BY <1>1, <2>1, <2>2
  <1> DEFINE chosen == {m \in markets :
                /\ Verified(m, TierLow[tier], TierHigh[tier], TierSupported[tier], TRUE)
                /\ SlipLegs[tier][1] <= Len(m.legs) /\ Len(m.legs) <= SlipLegs[tier][2]
                /\ tier = "research_edge" => \A i \in DOMAIN m.legs : ResearchPasses(m.legs[i])}
  <1>4. Candidates(markets, tier) = {ListedSlip(m, tier) : m \in chosen} BY DEF Candidates
  <1>5. chosen \subseteq priced /\ (tier # "research_edge" => priced \subseteq chosen)
    <2> HIDE DEF markets
    <2> QED BY PricedMarketsPass
  <1> HIDE DEF chosen, priced, markets, eligible
  <1>6. Candidates(markets, tier) # {} <=> chosen # {} BY <1>4
  <1> QED BY <1>3, <1>5, <1>6 DEF markets, eligible

\* A payload keeps a slip only if it was fresh, and gates none that is authoritative.
LEMMA GatesKeep ==
    ASSUME NEW payload, payload = [x \in PayloadFields |-> payload[x]], payload.stale \in Nat,
           NEW now \in Int, payload.generated \in Int
    PROVE  LET gated == Gated(payload, now)
           IN  /\ gated = [x \in PayloadFields |-> gated[x]]
               /\ gated.generated = payload.generated /\ gated.started = payload.started
               /\ gated.stale = payload.stale /\ gated.sources = payload.sources
               /\ gated.gate = "fresh_data_ready" =>
                     payload.stale = 0 /\ now - payload.generated <= MaxSlipAge
               /\ \A tier \in Tiers :
                    /\ gated.slips[tier].action = "BUILD_SLIP" =>
                          /\ gated.gate = "fresh_data_ready"
                          /\ gated.slips[tier] = payload.slips[tier]
                    /\ gated.gate = "fresh_data_ready" =>
                          /\ payload.slips[tier].action = "BUILD_SLIP"
                               /\ Authoritative(payload.slips[tier]) =>
                                 gated.slips[tier].action = "BUILD_SLIP"
                          /\ gated.slips[tier].action = "BUILD_SLIP" =>
                                 payload.slips[tier].action = "BUILD_SLIP"
  <1> DEFINE code == slip_payload_gate(payload, now)
             gated == Gated(payload, now)
             open == [payload EXCEPT !.gate = code,
                !.slips = [t \in Tiers |->
                    IF payload.slips[t].action = "BUILD_SLIP" /\ ~Authoritative(payload.slips[t])
                    THEN NoSlip("blocked_unverified_combo") ELSE payload.slips[t]]]
             shut == [payload EXCEPT !.gate = code, !.picks = "NO_BET",
                                     !.slips = [t \in Tiers |-> NoSlip(code)]]
  <1>1. gated = IF code # "fresh_data_ready" THEN shut ELSE open BY DEF Gated
  <1>2. code = "fresh_data_ready" => payload.stale = 0 /\ now - payload.generated <= MaxSlipAge
    BY SlipAssumption DEF slip_payload_gate
  <1> HIDE DEF code
  <1>3. ASSUME NEW kind PROVE NoSlip(kind).action = "NO_SLIP" BY DEF NoSlip
  <1>4. CASE code # "fresh_data_ready"
    <2>1. gated = shut BY <1>1, <1>4
    <2>2. /\ shut = [x \in PayloadFields |-> shut[x]] /\ shut.gate = code
          /\ shut.generated = payload.generated /\ shut.started = payload.started
          /\ shut.stale = payload.stale /\ shut.sources = payload.sources
          /\ \A tier \in Tiers : shut.slips[tier] = NoSlip(code)
      BY DEF PayloadFields
    <2> HIDE DEF gated, shut, open
    <2> QED BY <1>3, <1>4, <2>1, <2>2 DEF gated
  <1>5. CASE code = "fresh_data_ready"
    <2>1. gated = open BY <1>1, <1>5
    <2>2. /\ open = [x \in PayloadFields |-> open[x]] /\ open.gate = code
          /\ open.generated = payload.generated /\ open.started = payload.started
          /\ open.stale = payload.stale /\ open.sources = payload.sources
          /\ \A tier \in Tiers : open.slips[tier] =
                IF payload.slips[tier].action = "BUILD_SLIP" /\ ~Authoritative(payload.slips[tier])
                THEN NoSlip("blocked_unverified_combo") ELSE payload.slips[tier]
      BY DEF PayloadFields
    <2> HIDE DEF gated, shut, open
    <2>3. /\ gated = [x \in PayloadFields |-> gated[x]] /\ gated.gate = "fresh_data_ready"
          /\ gated.generated = payload.generated /\ gated.started = payload.started
          /\ gated.stale = payload.stale /\ gated.sources = payload.sources
      BY <1>5, <2>1, <2>2
    <2>4. ASSUME NEW tier \in Tiers
          PROVE  /\ gated.slips[tier].action = "BUILD_SLIP" => gated.slips[tier] = payload.slips[tier]
                 /\ payload.slips[tier].action = "BUILD_SLIP" /\ Authoritative(payload.slips[tier])
                       => gated.slips[tier].action = "BUILD_SLIP"
      BY <1>3, <2>1, <2>2
    <2> QED BY <1>2, <1>5, <2>3, <2>4 DEF gated
  <1> QED BY <1>4, <1>5

LEMMA BuildKeeps == ASSUME SlipInv, Build PROVE SlipInv'
  <1> DEFINE markets == ComboMarkets(spRun)
  <1>1. RunIsDated(spRun, spClock) /\ Wanted(spRun) \subseteq DOMAIN spRun.legs
    BY DEF SlipInv, Build, NoRun
  <1>2. PICK custom \in Builds(markets, "custom"), leverage \in Builds(markets, "leverage"),
             all_day \in Builds(markets, "all_day"),
             research_edge \in Builds(markets, "research_edge") :
          spPayload' = Gated([at |-> "built", generated |-> spClock,
                                 started |-> spRun.started, stale |-> spRun.stale,
                                 slips |-> [custom |-> custom, leverage |-> leverage,
                                            all_day |-> all_day, research_edge |-> research_edge],
                                 picks |-> build_pick_summary(markets),
                                 sources |-> SourceSummary(markets),
                                 gate |-> "none"], spClock)
    BY DEF Build
  <1> DEFINE slips == [custom |-> custom, leverage |-> leverage,
                       all_day |-> all_day, research_edge |-> research_edge]
             picks == build_pick_summary(markets)
             sources == SourceSummary(markets)
             payload == [at |-> "built", generated |-> spClock,
                         started |-> spRun.started, stale |-> spRun.stale,
                         slips |-> slips, picks |-> picks, sources |-> sources, gate |-> "none"]
  <1>3. \A tier \in Tiers : slips[tier] \in Builds(markets, tier)
    BY DEF Tiers
  <1>4. spPayload' = Gated(payload, spClock) BY <1>2
  <1> HIDE DEF slips, picks, sources, markets
  <1>5. /\ payload = [x \in PayloadFields |-> payload[x]] /\ payload.generated = spClock
        /\ payload.started = spRun.started /\ payload.stale = spRun.stale
        /\ payload.slips = slips /\ payload.sources = sources
    BY DEF PayloadFields
  <1> HIDE DEF payload
  <1>6. spClock \in Nat /\ spRun.started \in 0..spClock /\ spRun.stale \in Nat
    BY <1>1 DEF SlipInv, RunIsDated, RunShape
  <1>7. ASSUME NEW tier \in Tiers
        PROVE  \/ slips[tier].action # "BUILD_SLIP" /\ Candidates(markets, tier) = {}
               \/ slips[tier].action = "BUILD_SLIP" /\ slips[tier] \in Candidates(markets, tier)
    <2>1. CASE Candidates(markets, tier) = {}
      <3>1. slips[tier] = NoSlip("no_exact_listed_combo") BY <1>3, <2>1 DEF Builds
      <3> QED BY <2>1, <3>1 DEF NoSlip
    <2>2. CASE Candidates(markets, tier) # {}
      <3>1. slips[tier] \in Candidates(markets, tier) BY <1>3, <2>2 DEF Builds
      <3>2. PICK m : slips[tier] = ListedSlip(m, tier) BY <3>1 DEF Candidates
      <3>3. slips[tier].action = "BUILD_SLIP" BY <3>2 DEF ListedSlip
      <3> QED BY <3>1, <3>3
    <2> QED BY <2>1, <2>2
  <1>8. ASSUME NEW tier \in Tiers, spRun.stale = 0, slips[tier].action = "BUILD_SLIP"
        PROVE  SlipIsListed(slips[tier], tier, spRun.started) /\ Authoritative(slips[tier])
    <2>1. slips[tier] \in Candidates(ComboMarkets(spRun), tier) BY <1>7, <1>8 DEF markets
    <2> QED BY <1>1, <1>6, <1>8, <2>1, CandidatesAreListed
  <1> DEFINE gated == Gated(payload, spClock)
  <1>9. /\ gated = [x \in PayloadFields |-> gated[x]]
        /\ gated.generated = spClock /\ gated.started = spRun.started
        /\ gated.stale = spRun.stale /\ gated.sources = sources
        /\ gated.gate = "fresh_data_ready" => spRun.stale = 0
        /\ \A tier \in Tiers :
             /\ gated.slips[tier].action = "BUILD_SLIP" =>
                   gated.gate = "fresh_data_ready" /\ gated.slips[tier] = slips[tier]
             /\ gated.gate = "fresh_data_ready" =>
                   /\ slips[tier].action = "BUILD_SLIP" /\ Authoritative(slips[tier]) =>
                         gated.slips[tier].action = "BUILD_SLIP"
                   /\ gated.slips[tier].action = "BUILD_SLIP" => slips[tier].action = "BUILD_SLIP"
    <2>1. payload.stale \in Nat /\ payload.generated \in Int /\ spClock \in Int BY <1>5, <1>6
    <2> HIDE DEF gated
    <2> QED BY <1>5, <2>1, GatesKeep DEF gated
  <1> HIDE DEF gated
  <1>10. PayloadIsListed(gated, spClock)
    BY <1>6, <1>8, <1>9 DEF PayloadIsListed
  <1>11. SummaryAgrees(gated)
    <2> SUFFICES ASSUME gated.gate = "fresh_data_ready", NEW tier \in Tiers
                 PROVE  LET built == gated.slips[tier].action = "BUILD_SLIP"
                            eligible == gated.sources.tiers[tier].eligible
                        IN  IF tier = "research_edge" THEN built => eligible > 0
                            ELSE built <=> eligible > 0
      BY DEF SummaryAgrees
    <2>1. /\ Candidates(markets, tier) # {} => sources.tiers[tier].eligible > 0
          /\ tier # "research_edge" /\ sources.tiers[tier].eligible > 0 =>
                Candidates(markets, tier) # {}
      BY <1>1, EligibleAreBuilt DEF markets, sources
    <2>2. gated.slips[tier].action = "BUILD_SLIP" <=> slips[tier].action = "BUILD_SLIP"
      BY <1>8, <1>9
    <2>3. slips[tier].action = "BUILD_SLIP" <=> Candidates(markets, tier) # {} BY <1>7
    <2> QED BY <1>9, <2>1, <2>2, <2>3
  <1>12. spPayload' = gated BY <1>4 DEF gated
  <1> QED BY <1>10, <1>11, <1>12 DEF SlipInv, Build, spFiles

LEMMA ShowKeeps == ASSUME SlipInv, Show PROVE SlipInv'
  <1>1. PayloadIsListed(spPayload, spClock) /\ spClock \in Nat BY DEF SlipInv, Show
  <1> DEFINE gated == Gated(spPayload, spClock)
  <1>2. /\ spPayload = [x \in PayloadFields |-> spPayload[x]] /\ spPayload.stale \in Nat
        /\ spPayload.generated \in 0..spClock /\ spPayload.started \in 0..spPayload.generated
    BY <1>1 DEF PayloadIsListed
  <1>3. /\ gated = [x \in PayloadFields |-> gated[x]]
        /\ gated.generated = spPayload.generated /\ gated.started = spPayload.started
        /\ gated.gate = "fresh_data_ready" => spClock - spPayload.generated <= MaxSlipAge
        /\ \A tier \in Tiers : gated.slips[tier].action = "BUILD_SLIP" =>
              gated.gate = "fresh_data_ready" /\ gated.slips[tier] = spPayload.slips[tier]
    <2>1. spPayload.generated \in Int /\ spClock \in Int BY <1>1, <1>2
    <2>2. PICK is : is = Gated(spPayload, spClock) OBVIOUS
    <2>3. /\ is = [x \in PayloadFields |-> is[x]]
          /\ is.generated = spPayload.generated /\ is.started = spPayload.started
          /\ is.gate = "fresh_data_ready" =>
                spPayload.stale = 0 /\ spClock - spPayload.generated <= MaxSlipAge
          /\ \A tier \in Tiers : is.slips[tier].action = "BUILD_SLIP" =>
                is.gate = "fresh_data_ready" /\ is.slips[tier] = spPayload.slips[tier]
      <3>1. LET is2 == Gated(spPayload, spClock)
            IN  /\ is2 = [x \in PayloadFields |-> is2[x]]
                /\ is2.generated = spPayload.generated /\ is2.started = spPayload.started
                /\ is2.gate = "fresh_data_ready" =>
                      spPayload.stale = 0 /\ spClock - spPayload.generated <= MaxSlipAge
                /\ \A tier \in Tiers : is2.slips[tier].action = "BUILD_SLIP" =>
                      is2.gate = "fresh_data_ready" /\ is2.slips[tier] = spPayload.slips[tier]
        BY <1>2, <2>1, GatesKeep
      <3> QED BY <2>2, <3>1
    <2>4. gated = is BY <2>2
    <2> HIDE DEF gated
    <2> QED BY <2>3, <2>4, Zenon
  <1>4. spShown' = Over([shown |-> spClock], gated) BY DEF Show
  <1> HIDE DEF gated
  <1>5. /\ spShown'.shown = spClock /\ spShown'.generated = spPayload.generated
        /\ spShown'.started = spPayload.started /\ spShown'.slips = gated.slips
    BY <1>3, <1>4 DEF Over, PayloadFields
  <1>6. ShowsListed(spShown')
    <2> SUFFICES ASSUME NEW tier \in Tiers, gated.slips[tier].action = "BUILD_SLIP"
                 PROVE  /\ SlipIsListed(gated.slips[tier], tier, spPayload.started)
                        /\ \A i \in DOMAIN gated.slips[tier].legs :
                             spClock - gated.slips[tier].legs[i].fetched
                               <= MaxSlipAge + SlipTtl + spPayload.generated - spPayload.started
      BY <1>5 DEF ShowsListed
    <2>1. SlipIsListed(gated.slips[tier], tier, spPayload.started)
      BY <1>1, <1>3 DEF PayloadIsListed
    <2>2. \A i \in DOMAIN gated.slips[tier].legs :
             /\ gated.slips[tier].legs[i].fetched \in Int
             /\ spPayload.started - SlipTtl <= gated.slips[tier].legs[i].fetched
      BY <2>1 DEF SlipIsListed
    <2>3. spClock - spPayload.generated <= MaxSlipAge BY <1>3
    <2>4. ASSUME NEW fetched \in Int, spPayload.started - SlipTtl <= fetched
          PROVE  spClock - fetched <= MaxSlipAge + SlipTtl + spPayload.generated - spPayload.started
      <3>1. MaxSlipAge \in Nat /\ SlipTtl \in Nat BY SlipAssumption
      <3> QED BY <1>1, <1>2, <2>3, <2>4, <3>1
    <2> QED BY <2>1, <2>2, <2>4
  <1> QED BY <1>6 DEF SlipInv, Show, spFiles

LEMMA SlipKeeps == ASSUME SlipInv, SlipsFocus \/ UNCHANGED spVars PROVE SlipInv'
  <1>1. CASE UNCHANGED spVars BY <1>1 DEF SlipInv, spVars
  <1>2. CASE SlipsFocus
    <2>1. ASSUME NEW state \in AnswerStates, FetchPage(state) \/ FetchLeg(state) PROVE SlipInv'
      BY <2>1, FetchPageKeeps, FetchLegKeeps
    <2>2. {"fresh", "missing"} \subseteq AnswerStates BY DEF AnswerStates
    <2>3. CASE \/ \E m \in LegMarkets, quote \in LegQuotes : LegMoves(m, quote)
               \/ \E t \in Combos, quote \in ComboQuotes : ComboMoves(t, quote)
      BY <2>3, ExchangeMovesKeeps
    <2> DEFINE states == CASE Only("slips", "stale") -> AnswerStates
                           [] Only("slips", "quotes") -> {"fresh"}
                           [] OTHER -> {"fresh", "missing"}
    <2>4. states \subseteq AnswerStates BY <2>2
    <2>5. ASSUME \/ OthersFetchPage(1, 1)
                 \/ \E m \in {"x", "y"} \cap LegMarkets : OthersFetchLeg(m)
                 \/ FilesGo(DOMAIN spPageFiles, {}) \/ FilesGo({}, DOMAIN spLegFiles)
          PROVE  SlipInv'
      BY <2>5, FirstPages, FilesKeep
    <2> HIDE DEF states
    <2> QED BY <1>2, <2>1, <2>3, <2>4, <2>5, SlipTickKeeps, StartBuildKeeps, BuildKeeps, ShowKeeps
         DEF SlipsFocus, states
  <1> QED BY <1>1, <1>2

-----------------------------------------------------------------------------
(* The theorems: the steps of one component leave the others alone. *)

ShownInv == HttpInv /\ SlipInv

\* What is shown of the exchange was listed there when it was fetched, by the build that
\* shows it or at most the lifetime of a cached response before it, and what a client
\* answers says how old it is: gate_slip_payload, build_combo_source_summary and
\* HttpClient.get_text, for every listing, every movement of its prices, any lifetime of
\* the cache, and any number of clients.
THEOREM SlipsListed == Spec => [](SlipsAreListed /\ hcTypeOK /\ spTypeOK)
  <1>1. Init => ShownInv
    BY HttpStarts, SlipStarts DEF Init, ShownInv
  <1>2. ShownInv /\ [Next]_vars => ShownInv'
    <2> SUFFICES ASSUME ShownInv, [Next]_vars PROVE ShownInv'
      OBVIOUS
    <2>1. HttpFocus \/ UNCHANGED hcVars BY DEF Next, vars
    <2>2. SlipsFocus \/ UNCHANGED spVars BY DEF Next, vars
    <2> QED BY <2>1, <2>2, HttpKeeps, SlipKeeps DEF ShownInv
  <1>3. ShownInv => SlipsAreListed /\ hcTypeOK /\ spTypeOK
    BY HttpShows, SlipPropertiesFollow DEF ShownInv, SlipsAreListed
  <1> QED BY <1>1, <1>2, <1>3, PTL DEF Spec

\* A candidate has a stake that pays even at the lower bound of its probability, and no
\* lower price, fee, slippage or spread takes it back; confidence rests on evidence, and
\* a feature tree that passes holds no outcome: evaluate_binary_contract_decision,
\* confidence_guardrail and find_lookahead_fields, for every contract, policy and tree.
THEOREM DecisionsPay ==
    Spec => [](bdTypeOK /\ CandidatesPay /\ CheaperIsNoWorse /\ ConfidenceIsEarned /\ NoOutcomeLeaks)
  <1>1. Init => BetInv
    BY BetStarts DEF Init
  <1>2. BetInv /\ [Next]_vars => BetInv'
    <2> SUFFICES ASSUME BetInv, [Next]_vars PROVE BetInv'
      OBVIOUS
    <2>1. SlipsFocus => UNCHANGED bdVars BY DEF SlipsFocus
    <2>2. bdNext \/ UNCHANGED bdVars BY <2>1 DEF Next, vars
    <2> QED BY <2>2, BetKeeps
  <1> QED BY <1>1, <1>2, BetPropertiesFollow, PTL DEF Spec

\* While nobody edits the file and no two recorders overlap, the chain of hashes verifies
\* whatever dies, and a chain that verifies holds every entry as it was appended; an
\* accepted verdict has an interval without zero: AuditLog, ExperimentRegistry and the
\* verdicts of the comparison reports, for every number of recorders, edits and deaths.
THEOREM RegistryHonest == Spec => [](erTypeOK /\ HistoryIsKept /\ VerdictsAreEarned)
  <1>1. Init => RegistryInv
    BY RegistryStarts DEF Init
  <1>2. RegistryInv /\ [Next]_vars => RegistryInv'
    <2> SUFFICES ASSUME RegistryInv, [Next]_vars PROVE RegistryInv'
      OBVIOUS
    <2>1. RegistryFocus => erNext BY DEF RegistryFocus
    <2>2. erNext \/ UNCHANGED erVars BY <2>1 DEF Next, vars
    <2> QED BY <2>2, RegistryKeeps
  <1> QED BY <1>1, <1>2, RegistryPropertiesFollow, PTL DEF Spec

\* A crypto prediction is made from a candle that had closed and settled by one that
\* closes at or after its time, overlapping cycles log and settle an exposure once, and
\* the reports, whose statements are answered one by one while the cycles log and settle,
\* count no row twice, lose no settled one, and claim a leak of the future never:
\* log_crypto_predictions, settle_crypto_predictions and the statements of the three
\* reports, for every number of cycles, horizons and candles.
THEOREM CryptoHonest ==
    Spec => [](clTypeOK /\ PredictionsAreHonest /\ CryptoRowsAreFinal /\ CryptoReportsAddUp)
  <1>1. Init => CryptoInv
    BY CryptoStarts DEF Init
  <1>2. CryptoInv /\ [Next]_vars => CryptoInv'
    <2> SUFFICES ASSUME CryptoInv, [Next]_vars PROVE CryptoInv'
      OBVIOUS
    <2>1. CryptoFocus => clNext BY DEF CryptoFocus, clNext, CryptoReporter
    <2>2. clNext \/ UNCHANGED clVars BY <2>1 DEF Next, vars
    <2> QED BY <2>2, CryptoKeeps
  <1> QED BY <1>1, <1>2, CryptoPropertiesFollow, PTL DEF Spec

\* While loggers do not overlap the snapshots of a quote are numbered without a gap in
\* the order of their times, whatever a row says of its outcome an audit row says too,
\* and the daily report never holds back an audit that would pass:
\* log_forward_predictions, import_settlements and the two reports, for every number of
\* loggers, importers, payloads and answers.
THEOREM PaperHonest ==
    Spec => [](plTypeOK /\ SnapshotsAreOrdered /\ AuditExplains /\ GatesAgree)
  <1>1. Init => PaperInv
    BY PaperStarts DEF Init
  <1>2. PaperInv /\ [Next]_vars => PaperInv'
    <2> SUFFICES ASSUME PaperInv, [Next]_vars PROVE PaperInv'
      OBVIOUS
    <2>1. PaperFocus => plNext BY DEF PaperFocus, plNext
    <2>2. plNext \/ UNCHANGED plVars BY <2>1 DEF Next, vars
    <2> QED BY <2>2, PaperKeeps
  <1> QED BY <1>1, <1>2, PaperPropertiesFollow, PTL DEF Spec

\* No accepted position breaks a limit on capital, event, category, underlying or
\* correlated group, and no rejected one would have kept them all: apply_exposure_limits
\* and the decomposition that passes rows to it, for every set of rows and every limits.
THEOREM ReturnsWithinLimits == Spec => [](rdTypeOK /\ LimitsHold)
  <1>1. Init => ReturnsInv
    BY ReturnsStart DEF Init
  <1>2. ReturnsInv /\ [Next]_vars => ReturnsInv'
    <2> SUFFICES ASSUME ReturnsInv, [Next]_vars PROVE ReturnsInv'
      OBVIOUS
    <2>1. rdNext \/ UNCHANGED rdVars BY DEF Next, vars
    <2> QED BY <2>1, ReturnsKeep
  <1>3. ReturnsInv => rdTypeOK /\ LimitsHold
    BY DEF ReturnsInv, rdTypeOK
  <1> QED BY <1>1, <1>2, <1>3, PTL DEF Spec

-----------------------------------------------------------------------------
(* What goes through lists, and what the components make together. *)

\* A forecast rests on games that started before its own and whose score the log agrees
\* on, rows are in the order of their games, and a blended forecast was fitted on games of
\* other seasons that started no later: load_settled_games, walk_forward and
\* walk_forward_blend, for every set of settled rows and closing lines.
THEOREM RatingsBlind == Spec => [](rwTypeOK /\ ForecastsAreBlind)
  <1>1. Init => RatingsInv
    BY RatingsStart DEF Init
  <1>2. RatingsInv /\ [Next]_vars => RatingsInv'
    <2> SUFFICES ASSUME RatingsInv, [Next]_vars PROVE RatingsInv'
      OBVIOUS
    <2>1. rwNext \/ UNCHANGED rwVars BY DEF Next, vars
    <2> QED BY <2>1, RatingsKeep
  <1> QED BY <1>1, <1>2, RatingPropertiesFollow, PTL DEF Spec

\* What MCResearch lets a cycle do is what a cycle may do.
LEMMA FocusIsAStep == SportsFocus => scNext
  <1> SUFFICES ASSUME SportsFocus PROVE scNext
    OBVIOUS
  <1> DEFINE faults == focus[2] = "faults"
             late == focus[2] \in {"close", "faults"}
  <1>1. faults \in BOOLEAN /\ late \in BOOLEAN OBVIOUS
  <1>2. ASSUME NEW g \in Games, NEW e \in Endings, GameEnds(g, e) PROVE scNext
    BY <1>2, Zenon DEF scNext
  <1>3. ASSUME NEW r \in FixtureRows, MatchFixture(r) PROVE scNext
    BY <1>3, Zenon DEF scNext
  <1>4. ASSUME NEW s \in CycleSettings, NEW retry \in {FALSE, faults}, StartCycle(s, retry) PROVE scNext
    <2>1. retry \in BOOLEAN BY <1>1
    <2> QED BY <1>4, <2>1, Zenon DEF scNext
  <1>5. ASSUME NEW page \in OfficialPages, NEW n \in 0..1, NEW shape \in Shapes,
               FetchOfficialOdds(page, n, shape)
        PROVE  scNext
    BY <1>5, Zenon DEF scNext
  <1>6. ASSUME NEW p \in Postings \cap SportsPostings, NEW n \in 0..2, NEW shape \in Shapes,
               FetchScoreboard(p, n, shape) \/ FetchSummary(p, n, shape)
        PROVE  scNext
    <2>1. p \in Postings OBVIOUS
    <2> QED BY <1>6, <2>1, Zenon DEF scNext
  <1>7. ASSUME NEW n \in 0..2, NEW shape \in Shapes, FetchPrior(n, shape) PROVE scNext
    BY <1>7, Zenon DEF scNext
  <1>8. ASSUME NEW fails \in {FALSE, late}, capture_sports_closing_lines(fails) PROVE scNext
    <2>1. fails \in BOOLEAN BY <1>1
    <2> QED BY <1>8, <2>1, Zenon DEF scNext
  <1>9. ASSUME \/ SportsTick \/ NoSource \/ WriteReport \/ CycleDies \/ LoggingFails
               \/ _start_sports_collection_ledger \/ log_sports_predictions
               \/ _finish_sports_collection_ledger \/ settle_sports_predictions
        PROVE  scNext
    BY <1>9, Zenon DEF scNext
  <1> QED BY <1>2, <1>3, <1>4, <1>5, <1>6, <1>7, <1>8, <1>9, Zenon DEF SportsFocus

\* Two sides of a market are graded against each other, a cycle that could read the last
\* days leaves nothing open that had ended, a closing line is the book's own, batches and
\* the log agree and a fixture keeps its teams: the whole cycle of run_sports_cycle, for
\* every set of games, pages, settings and failures, and any number of cycles that die.
THEOREM SportsHonest ==
    Spec => [](scTypeOK /\ SportsAreHonest) /\ [][ReportNeverTakesBack]_vars
  <1>1. Init => SportsInv
    BY SportsStarts DEF Init
  <1>2. SportsInv /\ [Next]_vars => SportsInv' /\ ReportNeverTakesBack
    <2> SUFFICES ASSUME SportsInv, [Next]_vars PROVE SportsInv' /\ ReportNeverTakesBack
      OBVIOUS
    <2>1. SportsFocus => scNext BY FocusIsAStep
    <2>2. scNext \/ UNCHANGED scVars BY <2>1 DEF Next, vars
    <2> QED BY <2>2, SportsKeeps, ReportStands
  <1> QED BY <1>1, <1>2, SportsPropertiesFollow, PTL DEF Spec

\* Whatever the levels of a book, a fill costs no more than the capital, nor on average more
\* than the highest price and the limit; a resting order gets no more than rests, one that
\* takes pays at least the best ask, and what a settlement returns is accounted for:
\* simulate_order and settle_execution, for every order, book and configuration.
THEOREM OrdersAffordable == Spec => [](osTypeOK /\ FillIsAffordable)
  <1>1. Init => OrdersInv
    BY OrdersStart DEF Init
  <1>2. OrdersInv /\ [Next]_vars => OrdersInv'
    <2> SUFFICES ASSUME OrdersInv, [Next]_vars PROVE OrdersInv'
      OBVIOUS
    <2>1. osNext \/ UNCHANGED osVars BY DEF Next, vars
    <2> QED BY <2>1, OrdersKeep
  <1> QED BY <1>1, <1>2, OrderPropertiesFollow, PTL DEF Spec

\* What is logged before its outcome is settled by later evidence and counted once, and
\* what is concluded or recommended rests on evidence and stays within its limits, a fill
\* is paid for, a forecast rests on earlier games and no report takes back what an earlier
\* one said: the eight components together.
THEOREM LedgersHonest == Spec => LedgersAreHonest
  BY PaperHonest, CryptoHonest, RegistryHonest, DecisionsPay, ReturnsWithinLimits,
     RatingsBlind, SportsHonest, OrdersAffordable, PTL DEF LedgersAreHonest

\* Every component's state keeps its shape: the ten components of MCResearch, for every
\* value of their constants.
THEOREM ResearchTyped == Spec => []ResearchTypeOK
  <1>1. Init => focus \in Parts
    BY DEF Init
  <1>2. focus \in Parts /\ [Next]_vars => (focus \in Parts)'
    BY DEF Next, vars, Parts
  <1>3. /\ focus \in Parts
        /\ plTypeOK /\ clTypeOK /\ osTypeOK /\ rdTypeOK /\ bdTypeOK
        /\ hcTypeOK /\ spTypeOK /\ scTypeOK /\ rwTypeOK /\ erTypeOK
        => ResearchTypeOK
    <2> SUFFICES ASSUME focus \in Parts,
                        plTypeOK, clTypeOK, osTypeOK, rdTypeOK, bdTypeOK,
                        hcTypeOK, spTypeOK, scTypeOK, rwTypeOK, erTypeOK
                 PROVE  ResearchTypeOK
      OBVIOUS
    <2>1. PICK c \in {"paper", "crypto", "orders", "returns", "bets", "http", "slips", "sports",
                      "ratings", "registry"} :
               \E part : focus = <<c, part>>
      BY Zenon DEF Parts
    <2>2. focus[1] = c BY <2>1
    <2> QED BY <2>2 DEF ResearchTypeOK
  <1> QED
    BY <1>1, <1>2, <1>3, PaperHonest, CryptoHonest, OrdersAffordable, ReturnsWithinLimits,
       DecisionsPay, SlipsListed, SportsHonest, RatingsBlind, RegistryHonest, PTL DEF Spec
=============================================================================
