-------------------------------- MODULE Sessions --------------------------------
(***************************************************************************)
(* Who may do what on the dashboard: the accounts, sessions and request    *)
(* tokens of auth.py, and the handlers of paper_server.py that read and    *)
(* write them.  One account, one browser: several requests of it are open  *)
(* at a time, each carries the cookies the browser held when it was sent,  *)
(* the server answers it in several transactions, and the cookies of an    *)
(* answer are kept when it arrives.  An answer may be lost.                *)
(***************************************************************************)
EXTENDS Integers, Sequences, FiniteSets, SequencesExt

CONSTANTS
    Requests,         \* requests of the browser open at a time
    UserRole,         \* the account's role
    Deployments,      \* settings the server is started with
    MaximumFailures,  \* AUTH_MAX_FAILED_LOGINS
    LockFor,          \* AUTH_LOCK_MINUTES, in ticks
    SessionFor,       \* AUTH_SESSION_MINUTES
    MaxSessionClock,  \* bound: ticks
    MaxTokens,        \* bound: request tokens minted
    MaxGuesses,       \* bound: password attempts
    MaxDisables       \* bound: times the account is disabled

Roles == {"read_only", "researcher", "admin"}
ROLE_RANK == [r \in Roles |-> CASE r = "read_only" -> 1 [] r = "researcher" -> 2
                                [] r = "admin" -> 3]

\* The browser sends a request at least.
ASSUME SessionAssumption ==
    /\ UserRole \in Roles /\ Requests # {}
    /\ MaximumFailures \in Nat \ {0} /\ LockFor \in Nat \ {0} /\ SessionFor \in Nat \ {0}
    /\ MaxSessionClock \in Nat /\ MaxTokens \in Nat /\ MaxGuesses \in Nat
    /\ MaxDisables \in Nat

\* The settings of a server started without any.
NoSettings == [hosted |-> FALSE, require |-> TRUE, flag |-> FALSE, users |-> FALSE,
               password |-> FALSE, fallback |-> TRUE, role |-> ""]

VARIABLES
    ssClock,
    ssEnv,       \* the settings of the running server
    ssUser,      \* auth.app_users: [disabled, failures, locked]
    ssSessions,  \* auth.app_sessions, in creation order: [expires, revoked, csrf, disables]
    ssTokens,    \* request tokens minted so far: a token is its number, none is 0
    ssJar,       \* the browser's two cookies, and the token login.js left in the tab
    ssFlight,    \* the open requests
    ssGuesses,   \* auth.login_audit: when each attempt was made, and how it ended
    ssDisabled,  \* history: how many times the account was disabled
    ssOverlap    \* history: two requests that set cookies were open together
ssVars == <<ssClock, ssEnv, ssUser, ssSessions, ssTokens, ssJar, ssFlight, ssGuesses,
            ssDisabled, ssOverlap>>

NoRequest == [at |-> "none"]
NobodyElse == [role |-> "", method |-> "none"]

ssInit ==
    /\ ssClock = 0
    /\ ssEnv = NoSettings
    /\ ssUser = [disabled |-> FALSE, failures |-> 0, locked |-> 0]
    /\ ssSessions = << >>
    /\ ssTokens = 0
    /\ ssJar = [session |-> 0, csrf |-> 0, tab |-> 0]
    /\ ssFlight = [r \in Requests |-> NoRequest]
    /\ ssGuesses = << >>
    /\ ssDisabled = 0
    /\ ssOverlap = FALSE

----------------------------------------------------------------------------
(* Roles and settings *)

role_allows(actual, required) ==
    actual \in Roles /\ required \in Roles /\ ROLE_RANK[actual] >= ROLE_RANK[required]

dashboard_auth_enabled(e) ==
    e.flag \/ e.users \/ e.password \/ (e.require /\ e.hosted)

dashboard_auth_configured(e) ==
    (e.fallback /\ e.password) \/ e.users \/ ~dashboard_auth_enabled(e)

\* basic: the request carries the shared user name and password.
valid_dashboard_auth(e, basic) ==
    dashboard_auth_enabled(e) => e.password /\ basic

basic_auth_role(e) == IF e.role \in Roles THEN e.role ELSE "read_only"

Live(s) == ~s.revoked /\ s.expires > ssClock

resolve_session(session) ==
    /\ session # 0
    /\ Live(ssSessions[session])
    /\ ~ssUser.disabled

\* store: auth_store, which is None when the database cannot be reached.
authenticate_dashboard_request(basic, session, store) ==
    IF ~dashboard_auth_enabled(ssEnv)
    THEN [role |-> IF ssEnv.hosted THEN "read_only" ELSE "admin",
          method |-> "local_unprotected"]
    ELSE IF ssEnv.users /\ store /\ resolve_session(session)
    THEN [role |-> UserRole, method |-> "session"]
    ELSE IF ssEnv.fallback /\ valid_dashboard_auth(ssEnv, basic)
    THEN [role |-> basic_auth_role(ssEnv), method |-> "basic_fallback"]
    ELSE NobodyElse

\* What each route of do_GET asks for; the pages served to anyone are not here.
RoutesFor == [
    admin |-> {"/internal/status.json", "/ops", "/internal/operator-messages.json",
               "/api/v1/source-data", "/api/v1/source-data/entities",
               "/api/v1/source-data/markets", "/api/v1/source-data/live"},
    read_only |-> {"/auth/me", "/", "/data.json", "/api/v1"}]
MoreRoutesFor == [
    admin |-> {"/api/v1/source-data/refresh/", "/sports.json", "/sports-clv.json"},
    researcher |-> {"/review-packets.json", "/review-packet.json", "/slip-analysis.json"},
    read_only |-> {"/api/v1/games", "/api/v1/markets"}]
LastRoutesFor == [
    admin |-> {"/quality.json", "/research-record.json"},
    researcher |-> {"/review-packet.txt"},
    read_only |-> {"/refresh-status", "/freshness.json"}]

do_GET(route, role) ==
    \E table \in {RoutesFor, MoreRoutesFor, LastRoutesFor} : \E required \in DOMAIN table :
        route \in table[required] /\ role_allows(role, required)

build_data_catalog_payload(role) ==
    {"/api/v1/games", "/api/v1/markets"}
    \cup (IF role_allows(role, "researcher") THEN {"/slip-analysis.json"} ELSE {})
    \cup (IF role_allows(role, "admin")
          THEN {"/sports.json", "/sports-clv.json", "/api/v1/source-data",
                "/api/v1/source-data/entities", "/api/v1/source-data/markets",
                "/api/v1/source-data/live"}
          ELSE {})

----------------------------------------------------------------------------
(* The browser and its requests *)

SessionTick ==
    /\ ssClock < MaxSessionClock
    /\ ssClock' = ssClock + 1
    /\ UNCHANGED <<ssEnv, ssUser, ssSessions, ssTokens, ssJar, ssFlight, ssGuesses,
                   ssDisabled, ssOverlap>>

\* The server is started again with other settings; its open requests die.
StartServer(e) ==
    /\ e # ssEnv
    /\ ssEnv' = e
    /\ ssFlight' = [r \in Requests |-> NoRequest]
    /\ UNCHANGED <<ssClock, ssUser, ssSessions, ssTokens, ssJar, ssGuesses, ssDisabled,
                   ssOverlap>>

\* cli: dashboard users are disabled and enabled by the owner.
set_disabled(disabled) ==
    /\ ssUser.disabled # disabled
    /\ disabled => ssDisabled < MaxDisables
    /\ ssUser' = [ssUser EXCEPT !.disabled = disabled]
    /\ ssSessions' = IF disabled
                     THEN [s \in DOMAIN ssSessions |->
                               [ssSessions[s] EXCEPT !.revoked = TRUE]]
                     ELSE ssSessions
    /\ ssDisabled' = IF disabled THEN ssDisabled + 1 ELSE ssDisabled
    /\ UNCHANGED <<ssClock, ssEnv, ssTokens, ssJar, ssFlight, ssGuesses, ssOverlap>>

SetsCookies(kind) == kind \in {"login", "page", "logout"}

Send(r, kind, basic) ==
    /\ ssFlight[r] = NoRequest
    /\ kind \in {"login", "page", "logout", "post"}
    /\ ssFlight' = [ssFlight EXCEPT ![r] =
            [at |-> "sent", kind |-> kind, basic |-> basic, session |-> ssJar.session,
             csrf |-> ssJar.csrf,
             header |-> IF ssJar.csrf # 0 THEN ssJar.csrf ELSE ssJar.tab,
             method |-> "none", role |-> "", setSession |-> 0, setCsrf |-> 0]]
    /\ ssOverlap' = (ssOverlap \/ (SetsCookies(kind) /\ \E o \in Requests :
                                      /\ ssFlight[o] # NoRequest
                                      /\ SetsCookies(ssFlight[o].kind)))
    /\ UNCHANGED <<ssClock, ssEnv, ssUser, ssSessions, ssTokens, ssJar, ssGuesses, ssDisabled>>

\* One cookie is gone, the session's is kept: another device's jar, a cleared one.
DropCsrfCookie ==
    /\ ssJar.csrf # 0
    /\ ssJar' = [ssJar EXCEPT !.csrf = 0]
    /\ UNCHANGED <<ssClock, ssEnv, ssUser, ssSessions, ssTokens, ssFlight, ssGuesses,
                   ssDisabled, ssOverlap>>

\* The answer arrives; -1 clears a cookie, 0 leaves it.
Kept(old, set) == CASE set = -1 -> 0 [] set = 0 -> old [] OTHER -> set

Deliver(r) ==
    /\ ssFlight[r].at = "reply"
    /\ LET f == ssFlight[r]
       IN  ssJar' = [session |-> Kept(ssJar.session, f.setSession),
                     csrf |-> Kept(ssJar.csrf, f.setCsrf),
                     tab |-> IF f.kind = "login" THEN f.setCsrf ELSE ssJar.tab]
    /\ ssFlight' = [ssFlight EXCEPT ![r] = NoRequest]
    /\ UNCHANGED <<ssClock, ssEnv, ssUser, ssSessions, ssTokens, ssGuesses, ssDisabled,
                   ssOverlap>>

\* A request that dies half-way is one that takes no more steps.
LoseReply(r) ==
    /\ ssFlight[r].at \in {"reply", "done"}
    /\ ssFlight' = [ssFlight EXCEPT ![r] = NoRequest]
    /\ UNCHANGED <<ssClock, ssEnv, ssUser, ssSessions, ssTokens, ssJar, ssGuesses, ssDisabled,
                   ssOverlap>>

\* The answer sets no cookie.
Answered(r) == ssFlight' = [ssFlight EXCEPT ![r] = NoRequest]
Replies(r, session, csrf) ==
    ssFlight' = [ssFlight EXCEPT ![r].at = "reply", ![r].setSession = session,
                                 ![r].setCsrf = csrf]

----------------------------------------------------------------------------
(* Signing in: two transactions *)

\* store.authenticate_password, one transaction that locks the account's row.
\* How the attempt ends, and the account after it.
AttemptResult(right) ==
    IF ssUser.disabled THEN "account_disabled"
    ELSE IF ssUser.locked > ssClock THEN "account_locked"
    ELSE IF ~right THEN "invalid_credentials"
    ELSE "signed_in"

UserAfter(result) ==
    CASE result = "invalid_credentials" ->
            [ssUser EXCEPT !.failures = @ + 1,
                           !.locked = IF ssUser.failures + 1 >= MaximumFailures
                                      THEN ssClock + LockFor ELSE @]
      [] result = "signed_in" -> [ssUser EXCEPT !.failures = 0, !.locked = 0]
      [] OTHER -> ssUser

authenticate_password(r, right) ==
    /\ ssFlight[r].at = "sent" /\ ssFlight[r].kind = "login"
    /\ ssEnv.users
    /\ Len(ssGuesses) < MaxGuesses
    /\ LET result == AttemptResult(right)
       IN  /\ ssUser' = UserAfter(result)
           /\ ssGuesses' = Append(ssGuesses, [at |-> ssClock, result |-> result])
           /\ IF result = "signed_in"
              THEN ssFlight' = [ssFlight EXCEPT ![r].at = "known"]
              ELSE Answered(r)
    /\ UNCHANGED <<ssClock, ssEnv, ssSessions, ssTokens, ssJar, ssDisabled, ssOverlap>>

create_session(r) ==
    /\ ssFlight[r].at = "known"
    /\ ssTokens < MaxTokens
    /\ ssTokens' = ssTokens + 1
    /\ ssSessions' = Append(ssSessions,
            [expires |-> ssClock + SessionFor, revoked |-> FALSE, csrf |-> ssTokens',
             disables |-> ssDisabled])
    /\ Replies(r, Len(ssSessions'), ssTokens')
    /\ UNCHANGED <<ssClock, ssEnv, ssUser, ssJar, ssGuesses, ssDisabled, ssOverlap>>

----------------------------------------------------------------------------
(* The other requests *)

\* A sign-in is not authorised first; without accounts it is answered 503.
authorize_request(r, store) ==
    /\ ssFlight[r].at = "sent" /\ ssFlight[r].kind # "login"
    /\ LET who == authenticate_dashboard_request(ssFlight[r].basic, ssFlight[r].session, store)
       IN  IF role_allows(who.role, "read_only")
           THEN ssFlight' = [ssFlight EXCEPT ![r].at = "in", ![r].method = who.method,
                                             ![r].role = who.role]
           ELSE Answered(r)
    /\ UNCHANGED <<ssClock, ssEnv, ssUser, ssSessions, ssTokens, ssJar, ssGuesses, ssDisabled,
                   ssOverlap>>

validate_csrf(session, token) ==
    session # 0 /\ token # 0 /\ Live(ssSessions[session]) /\ ssSessions[session].csrf = token

valid_session_csrf(r, store) ==
    ssFlight[r].method = "session" =>
        store /\ validate_csrf(ssFlight[r].session, ssFlight[r].header)

rotate_csrf(session) ==
    /\ ssTokens < MaxTokens
    /\ ssTokens' = ssTokens + 1
    /\ ssSessions' = [ssSessions EXCEPT ![session].csrf = ssTokens']

reissued_csrf_cookie(r, store) ==
    /\ ssFlight[r].at = "in" /\ ssFlight[r].kind = "page"
    /\ IF /\ ssFlight[r].method = "session" /\ ssFlight[r].csrf = 0
          /\ store /\ Live(ssSessions[ssFlight[r].session])
       THEN rotate_csrf(ssFlight[r].session) /\ Replies(r, 0, ssTokens')
       ELSE Answered(r) /\ UNCHANGED <<ssTokens, ssSessions>>
    /\ UNCHANGED <<ssClock, ssEnv, ssUser, ssJar, ssGuesses, ssDisabled, ssOverlap>>

handle_logout(r, store) ==
    /\ ssFlight[r].at = "in" /\ ssFlight[r].kind = "logout"
    /\ IF valid_session_csrf(r, store)
       THEN ssFlight' = [ssFlight EXCEPT ![r].at = "leaving"]
       ELSE Answered(r)
    /\ UNCHANGED <<ssClock, ssEnv, ssUser, ssSessions, ssTokens, ssJar, ssGuesses, ssDisabled,
                   ssOverlap>>

revoke_session(r, store) ==
    /\ ssFlight[r].at = "leaving"
    /\ ssSessions' = IF ssFlight[r].session # 0 /\ ssEnv.users /\ store
                     THEN [ssSessions EXCEPT ![ssFlight[r].session].revoked = TRUE]
                     ELSE ssSessions
    /\ Replies(r, -1, -1)
    /\ UNCHANGED <<ssClock, ssEnv, ssUser, ssTokens, ssJar, ssGuesses, ssDisabled, ssOverlap>>

\* The three posts of an operator: role, action header and content type, token.
do_POST(r, store) ==
    /\ ssFlight[r].at = "in" /\ ssFlight[r].kind = "post"
    /\ IF role_allows(ssFlight[r].role, "admin") /\ valid_session_csrf(r, store)
       THEN ssFlight' = [ssFlight EXCEPT ![r].at = "done"]
       ELSE Answered(r)
    /\ UNCHANGED <<ssClock, ssEnv, ssUser, ssSessions, ssTokens, ssJar, ssGuesses, ssDisabled,
                   ssOverlap>>

RequestStep(r) ==
    \/ Deliver(r) \/ LoseReply(r)
    \/ create_session(r)
    \/ \E store \in {ssEnv.users, FALSE} :
          \/ authorize_request(r, store) \/ reissued_csrf_cookie(r, store)
          \/ handle_logout(r, store) \/ revoke_session(r, store) \/ do_POST(r, store)

ssNext ==
    \/ SessionTick \/ DropCsrfCookie
    \/ \E e \in Deployments : StartServer(e)
    \/ \E disabled \in BOOLEAN : set_disabled(disabled)
    \/ \E r \in Requests :
          \/ RequestStep(r)
          \/ \E right \in BOOLEAN : authenticate_password(r, right)
          \/ \E kind \in {"login", "page", "logout", "post"}, basic \in BOOLEAN :
                Send(r, kind, basic)

----------------------------------------------------------------------------
(* Properties *)

ssTypeOK ==
    /\ ssClock \in 0..MaxSessionClock
    /\ ssEnv \in Deployments \cup {NoSettings}
    /\ ssTokens \in 0..MaxTokens
    /\ \A s \in DOMAIN ssSessions :
          ssSessions[s].csrf \in 1..ssTokens /\ ssSessions[s].revoked \in BOOLEAN
    /\ ssJar.session \in 0..Len(ssSessions) /\ ssJar.csrf \in 0..ssTokens
    /\ \A r \in Requests : ssFlight[r].at \in {"none", "sent", "known", "in", "leaving",
                                               "reply", "done"}

\* reissued_csrf_cookie: a browser that holds a live session and a request
\* token can post with it.
TokenIsCurrent ==
    LET s == ssJar.session
    IN  s # 0 /\ Live(ssSessions[s]) /\ ssJar.csrf # 0 =>
            ssSessions[s].csrf = ssJar.csrf

\* ... it can, unless two requests that set cookies were open together.
TokenIsCurrentAlone == ~ssOverlap => TokenIsCurrent

\* set_disabled: a session made before the account was last disabled is revoked,
\* also when the account is enabled again.
DisablingSignsOut ==
    \A s \in DOMAIN ssSessions :
        ssSessions[s].revoked \/ ssSessions[s].disables = ssDisabled

\* authenticate_password: after MaximumFailures wrong passwords in a row the
\* next one that is looked at comes no sooner than the lock's length.
Wrong(i) == ssGuesses[i].result = "invalid_credentials"
Streak(i, j) == \A k \in i..j : ssGuesses[k].result # "signed_in"
GuessesAreSpaced ==
    \A i, j \in DOMAIN ssGuesses :
        /\ i < j /\ Wrong(i) /\ Wrong(j) /\ Streak(i, j)
        /\ Cardinality({k \in 1..i : Wrong(k) /\ Streak(k, i)}) >= MaximumFailures
        => ssGuesses[j].at >= ssGuesses[i].at + LockFor

\* build_data_catalog_payload: a route it lists is one that do_GET serves to
\* that role, and an admin's listing leaves out no data route of that kind.
CatalogIsFetchable ==
    \A role \in Roles : \A route \in build_data_catalog_payload(role) : do_GET(route, role)

=============================================================================
