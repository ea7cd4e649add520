------------------------------ MODULE HttpCache ------------------------------
(***************************************************************************)
(* connectors/http.py: clients that share a directory of cached responses. *)
(* A get reads the cache file, tries the network up to MaxRetries times    *)
(* more, writes the file, and falls back on a stale file when the client   *)
(* may.  Files are written in place: a reader can meet a torn file.  The   *)
(* body of a response is the time the server produced it.                  *)
(***************************************************************************)
EXTENDS Integers, FiniteSets, Sequences

CONSTANTS
    HttpClients,   \* processes, each with one client
    Urls,
    CacheTtl,      \* cache_ttl_seconds of an ordinary client
    MaxStale,      \* max_stale_seconds
    MaxRetries,    \* max_retries
    CacheMaxAge,   \* KALSHI_HTTP_CACHE_MAX_AGE_SECONDS
    CacheMaxFiles, \* KALSHI_HTTP_CACHE_MAX_BYTES, a file being one
    MaxHttpClock   \* bound

ASSUME HttpAssumption ==
    /\ HttpClients # {} /\ Urls # {}
    /\ CacheTtl \in Nat /\ MaxStale \in Nat /\ MaxRetries \in Nat
    /\ CacheMaxAge \in Nat /\ CacheMaxFiles \in Nat /\ MaxHttpClock \in Nat

VARIABLES
    hcClock,
    hcCache,    \* for each url, its file or NoFile
    hcGet       \* for each client, the get it is in or the response it has
hcVars == <<hcClock, hcCache, hcGet>>

NoFile == [saved |-> -1]
TornFile == [saved |-> -2]
Idle == [at |-> "idle"]
\* A probe has live_probe_client's settings, a strict client the default ones, a
\* lenient client KALSHI_HTTP_ALLOW_STALE_ON_ERROR.
Modes == {"strict", "lenient", "probe"}
Ttl(mode) == IF mode = "probe" THEN 0 ELSE CacheTtl

hcInit ==
    /\ hcClock = 0
    /\ hcCache = [u \in Urls |-> NoFile]
    /\ hcGet = [c \in HttpClients |-> Idle]

HttpTick ==
    /\ hcClock < MaxHttpClock
    /\ hcClock' = hcClock + 1
    /\ UNCHANGED <<hcCache, hcGet>>

\* _read_cache: a file that is missing or torn is none.
Readable(file) == file.saved >= 0

FromCache(g, stale) ==
    [at |-> "answered", mode |-> g.mode, url |-> g.url, started |-> g.started,
     body |-> g.cached.body, fetched |-> g.cached.fetched, cached |-> TRUE,
     stale |-> stale, tries |-> g.tries, age |-> hcClock - g.cached.saved]

\* get_text up to the request: a file of the last Ttl seconds is the answer.
StartGet(c, url, mode) ==
    LET file == hcCache[url]
        g == [at |-> "request", mode |-> mode, url |-> url, started |-> hcClock,
              cached |-> IF Readable(file) THEN file ELSE NoFile, tries |-> 0]
    IN  /\ hcGet[c].at = "idle"
        /\ hcGet' = [hcGet EXCEPT ![c] =
              IF Readable(file) /\ Ttl(mode) > 0 /\ hcClock - file.saved <= Ttl(mode)
              THEN FromCache(g, FALSE) ELSE g]
        /\ UNCHANGED <<hcClock, hcCache>>

\* The request gives a body; a client without a cache writes none.
Answered(c) ==
    LET g == hcGet[c]
        response == [at |-> "answered", mode |-> g.mode, url |-> g.url,
                     started |-> g.started, body |-> hcClock, fetched |-> hcClock,
                     cached |-> FALSE, stale |-> FALSE, tries |-> g.tries + 1, age |-> 0]
    IN  /\ g.at = "request"
        /\ hcGet' = [hcGet EXCEPT ![c] =
              IF Ttl(g.mode) > 0 THEN [response EXCEPT !.at = "write"] ELSE response]
        /\ UNCHANGED <<hcClock, hcCache>>

\* _write_cache opens the file, which empties it, and fills it.
OpenFile(c) ==
    /\ hcGet[c].at = "write"
    /\ hcCache' = [hcCache EXCEPT ![hcGet[c].url] = TornFile]
    /\ hcGet' = [hcGet EXCEPT ![c].at = "fill"]
    /\ UNCHANGED hcClock

\* saved_at is the time of the writing, fetched_at that of the response.
FillFile(c) ==
    /\ hcGet[c].at = "fill"
    /\ hcCache' = [hcCache EXCEPT ![hcGet[c].url] =
          [saved |-> hcClock, fetched |-> hcGet[c].fetched, body |-> hcGet[c].body]]
    /\ hcGet' = [hcGet EXCEPT ![c].at = "answered"]
    /\ UNCHANGED hcClock

\* An OSError of the writing is swallowed; what it left is torn.
WriteFails(c) ==
    /\ hcGet[c].at \in {"write", "fill"}
    /\ hcGet' = [hcGet EXCEPT ![c].at = "answered"]
    /\ UNCHANGED <<hcClock, hcCache>>

\* Mutant of MayServeStale: however old.
ServesAnyCopy(g) == g.mode = "lenient" /\ Readable(g.cached)

\* _stale_response: what the client read before the requests, if it may use it.
MayServeStale(g) ==
    /\ g.mode = "lenient" /\ Readable(g.cached)
    /\ hcClock - g.cached.saved <= MaxStale

\* "transient" is a timeout, an unreachable host or a status of _should_retry; "refused"
\* any other status; "raised" an error get_text does not catch (a body too large).
RequestFails(c, kind) ==
    LET g == hcGet[c]
        tried == [g EXCEPT !.tries = g.tries + 1]
    IN  /\ g.at = "request"
        /\ hcGet' = [hcGet EXCEPT ![c] =
              CASE kind = "transient" /\ g.tries < MaxRetries -> tried
                [] kind # "raised" /\ (kind = "transient" => g.tries >= MaxRetries)
                     /\ MayServeStale(g) -> FromCache(tried, TRUE)
                [] OTHER -> [tried EXCEPT !.at = "failed"]]
        /\ UNCHANGED <<hcClock, hcCache>>

\* The caller has done with the response.
TakeAnswer(c) ==
    /\ hcGet[c].at \in {"answered", "failed"}
    /\ hcGet' = [hcGet EXCEPT ![c] = Idle]
    /\ UNCHANGED <<hcClock, hcCache>>

\* prune_http_cache: files past their age first, then the oldest down to four fifths.
Pruned(files) ==
    LET kept == {u \in Urls : files[u] # NoFile /\ hcClock - files[u].saved <= CacheMaxAge}
        older(u, v) == files[u].saved < files[v].saved
        target == (4 * CacheMaxFiles) \div 5
    IN  IF Cardinality(kept) <= CacheMaxFiles THEN {kept}
        ELSE {s \in SUBSET kept :
                /\ Cardinality(s) = target
                /\ \A u \in s, v \in kept \ s : ~older(u, v)}

prune_http_cache ==
    /\ \A u \in Urls : hcCache[u] # TornFile   \* bound: it runs between writings
    /\ \E kept \in Pruned(hcCache) :
          hcCache' = [u \in Urls |-> IF u \in kept THEN hcCache[u] ELSE NoFile]
    /\ hcCache' # hcCache
    /\ UNCHANGED <<hcClock, hcGet>>

hcNext ==
    \/ HttpTick
    \/ prune_http_cache
    \/ \E c \in HttpClients :
          \/ \E u \in Urls, mode \in Modes : StartGet(c, u, mode)
          \/ Answered(c) \/ OpenFile(c) \/ FillFile(c) \/ WriteFails(c)
          \/ \E kind \in {"transient", "refused", "raised"} : RequestFails(c, kind)
          \/ TakeAnswer(c)

----------------------------------------------------------------------------
(* Properties *)

hcTypeOK ==
    /\ hcClock \in 0..MaxHttpClock
    /\ \A c \in HttpClients : hcGet[c].at \in
          {"idle", "request", "write", "fill", "answered", "failed"}
    /\ \A u \in Urls : hcCache[u].saved \in -2..hcClock

\* HttpClient.get_text: the time a response claims is the time of its body, whoever wrote
\* the file; a response that was not fetched during the get is marked as cached; only a
\* lenient client has a stale one, only after a failed request, and never one saved more
\* than MaxStale before; a probe's answer (live_probe_client, non_live_response_reason)
\* was fetched during the probe; no get sends more than MaxRetries + 1 requests.
ResponsesAreHonest ==
    \A c \in HttpClients : hcGet[c].at = "answered" =>
        LET g == hcGet[c]
        IN  /\ g.body = g.fetched
            /\ g.fetched < g.started => g.cached
            /\ g.stale => g.mode = "lenient" /\ g.tries > 0 /\ g.age <= MaxStale
            /\ g.cached /\ ~g.stale => g.tries = 0 /\ g.age <= CacheTtl
            /\ g.mode = "probe" => ~g.cached /\ g.fetched >= g.started
            /\ g.tries <= MaxRetries + 1

=============================================================================
