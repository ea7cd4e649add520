------------------------------- MODULE Preflight -------------------------------
(***************************************************************************)
(* preflight.py: the read-only gate an operator runs against an            *)
(* environment before it serves.  It judges the same settings the          *)
(* dashboard reads, with its own reading of them.                          *)
(***************************************************************************)
EXTENDS Sessions

VARIABLES
    pfEnv,     \* the environment to be judged
    pfReport   \* the statuses of its report
pfVars == <<pfEnv, pfReport>>

\* require "unset" is what differs between the readers: the dashboard takes it
\* for TRUE, the gates for FALSE.  A hosted platform sets several keys, of which
\* the gates look at fewer than the dashboard.
Environments ==
    [hosted: {"no", "environment", "public_domain"}, require: {"unset", "on", "off"},
     flag: {FALSE}, users: BOOLEAN, password: BOOLEAN, fallback: BOOLEAN, registration: BOOLEAN,
     role: {""}, controls: {"unset", "safe", "unsafe"}, database: BOOLEAN, pending: BOOLEAN,
     accounts: 0..1]

NoEnvironment == [NoSettings EXCEPT !.require = FALSE]
NoReportYet == << >>

pfInit == pfEnv = NoEnvironment /\ pfReport = NoReportYet

\* What the server makes of the environment.
ServerSettings(e) ==
    [hosted |-> e.hosted # "no", require |-> e.require # "off", flag |-> e.flag,
     users |-> e.users, password |-> e.password, fallback |-> e.fallback, role |-> e.role]

_is_hosted(e) == e.hosted = "environment"

check_migrations(e) == IF ~e.database \/ e.pending THEN "fail" ELSE "pass"

\* A control that is not set counts as unsafe on a hosted platform.
production_safety_status(e) ==
    (IF e.controls = "unsafe" \/ (_is_hosted(e) /\ e.controls = "unset")
     THEN {"controls"} ELSE {})
    \cup (IF _is_hosted(e) /\ e.require # "on" THEN {"require"} ELSE {})

check_safety_controls(e) == IF production_safety_status(e) = {} THEN "pass" ELSE "fail"

\* Mutant of BasicFallback: the flag alone counts as a way in.
BasicFlag(e) == e.fallback

BasicFallback(e) == e.fallback /\ e.password

check_auth_configuration(e) ==
    IF \/ _is_hosted(e) /\ e.require # "on"
       \/ ~e.users /\ ~BasicFallback(e)
       \/ _is_hosted(e) /\ e.registration
    THEN "fail"
    ELSE IF ~e.users \/ (_is_hosted(e) /\ BasicFallback(e)) THEN "warn" ELSE "pass"

check_sign_in_possible(e) ==
    IF ~e.users THEN "warn"
    ELSE IF ~e.database THEN "unknown"
    ELSE IF e.accounts = 0 THEN "fail" ELSE "pass"

ChooseEnvironment(e) ==
    /\ pfEnv = NoEnvironment
    /\ pfEnv' = e
    /\ UNCHANGED pfReport

run_preflight ==
    /\ pfEnv # NoEnvironment /\ pfReport = NoReportYet
    /\ pfReport' = <<check_migrations(pfEnv), check_safety_controls(pfEnv),
                     check_auth_configuration(pfEnv), check_sign_in_possible(pfEnv)>>
    /\ UNCHANGED pfEnv

pfNext == run_preflight \/ \E e \in Environments : ChooseEnvironment(e)

----------------------------------------------------------------------------
(* Properties *)

pfTypeOK == pfReport = NoReportYet \/ pfReport \in Seq({"pass", "warn", "fail", "unknown"})

PreflightReady ==
    pfReport # NoReportYet /\ \A i \in DOMAIN pfReport : pfReport[i] \notin {"fail", "unknown"}

\* run_preflight: in an environment it calls ready the dashboard lets nobody in
\* without credentials, and somebody has credentials that it accepts.
ReadyMeansSignIn ==
    PreflightReady =>
        LET e == ServerSettings(pfEnv)
        IN  /\ dashboard_auth_enabled(e) /\ dashboard_auth_configured(e)
            /\ \/ e.users /\ pfEnv.accounts > 0
               \/ e.fallback /\ valid_dashboard_auth(e, TRUE)
            /\ ~valid_dashboard_auth(e, FALSE)

=============================================================================
