------------------------------ MODULE Requests -------------------------------
(***************************************************************************)
(* The guards and hooks a request passes, one by one: its rate limit, its  *)
(* token and role rule, its controllers, and its uploaded files; and the   *)
(* application of the repository that has controllers and jobs of its own  *)
(* (Incidents).  They share no state; each behaviour follows one of them   *)
(* (`part'), the variables of the others stay "-".                         *)
(***************************************************************************)
EXTENDS Integers, Sequences, FiniteSets

CONSTANTS
    Calls, Client, MaxRequests, WindowSecs, MaxWait, Horizon,          \* RateLimiter
    Accounts, ApiKeyUsers, TokenRows, Rules,                           \* Sessions
    AccessTtl, RefreshTtl, Leeway, MaxTokens, TokenHorizon,
    Endpoints, MaxWrites,                                              \* Controllers
    Reqs, FileRows, MaxParts, MaxStops,                                \* Uploads
    AppServices, AppRows, Alerts, Prints, AppRequests, AppFaults       \* Incidents

VARIABLES
    part,
    now, slack, stamp, ran, result, entries, seq, expiry,          \* RateLimiter
    time, tokens, seen,                                            \* Sessions
    config, table, files, req, cleanup, failed, stops,             \* Uploads
    ep, known, pc, hook, data, calls, written, effects, answer,    \* Controllers
    service, incident, alert, check, young, queued, linking, pending, log, spoilt,
    cleared, edited, requests, faults                              \* Incidents

-----------------------------------------------------------------------------
Limits == INSTANCE RateLimiter

Tokens == INSTANCE Sessions WITH Rows <- TokenRows, Horizon <- TokenHorizon

Hooks == INSTANCE Controllers

Files == INSTANCE Uploads WITH Rows <- FileRows

App == INSTANCE Incidents WITH
    Services <- AppServices, Rows <- AppRows, MaxRequests <- AppRequests, MaxFaults <- AppFaults

ASSUME LimitsAssumption ==
    /\ IsFiniteSet(Calls)
    /\ MaxRequests \in Nat /\ WindowSecs \in Nat /\ MaxWait \in Nat /\ Horizon \in Nat

\* A tenant is an option; so is an endpoint's auth rule, of one of three kinds.
ASSUME TokensAssumption ==
    /\ AccessTtl \in Nat \ {0} /\ RefreshTtl \in Nat \ {0}
    /\ Leeway \in Nat /\ TokenHorizon \in Nat
    /\ \A a \in Accounts : \A x, y \in a.tenant : x = y
    /\ \A rule \in Rules : /\ \A r, s \in rule : r = s
                           /\ \A r \in rule : r.kind \in {"public", "owner", "roles"}

ASSUME HooksAssumption ==
    /\ MaxWrites \in Nat \ {0}
    /\ \A e \in Endpoints : e.before \in Seq(Hooks!Hooks) /\ e.after \in Seq(Hooks!Hooks)
    /\ \A h \in Hooks!Hooks : h.kind \in {"rust", "wasm"}

ASSUME FilesAssumption == MaxParts \in Nat /\ MaxStops \in Nat

\* Incidents and alerts are numbered in the order of their creation.
ASSUME AppAssumption ==
    /\ AppRows \subseteq Nat /\ Alerts \subseteq Nat
    /\ AppRequests \in Nat /\ AppFaults \in Nat

-----------------------------------------------------------------------------
LimitsVars == <<now, slack, stamp, ran, result, entries, seq, expiry>>
TokensVars == <<time, tokens, seen>>
FilesVars == <<config, table, files, req, cleanup, failed, stops>>
HooksVars == <<ep, known, pc, hook, data, calls, written, effects, answer>>
AppVars == <<service, incident, alert, check, young, queued, linking, pending, log, spoilt,
             cleared, edited, requests, faults>>
all == <<part, LimitsVars, TokensVars, FilesVars, HooksVars, AppVars>>

LimitsParked ==
    /\ now = "-" /\ slack = "-" /\ stamp = "-" /\ ran = "-" /\ result = "-"
    /\ entries = "-" /\ seq = "-" /\ expiry = "-"

TokensParked ==
    /\ time = "-" /\ tokens = "-" /\ seen = "-"

FilesParked ==
    /\ config = "-" /\ table = "-" /\ files = "-" /\ req = "-" /\ cleanup = "-"
    /\ failed = "-" /\ stops = "-"

HooksParked ==
    /\ ep = "-" /\ known = "-" /\ pc = "-" /\ hook = "-" /\ data = "-"
    /\ calls = "-" /\ written = "-" /\ effects = "-" /\ answer = "-"

AppParked ==
    /\ service = "-" /\ incident = "-" /\ alert = "-" /\ check = "-" /\ young = "-"
    /\ queued = "-" /\ linking = "-" /\ pending = "-" /\ log = "-" /\ spoilt = "-"
    /\ cleared = "-" /\ edited = "-" /\ requests = "-" /\ faults = "-"

RequestsInit ==
    \/ part = "limits" /\ Limits!Init /\ TokensParked /\ HooksParked /\ FilesParked /\ AppParked
    \/ part = "tokens" /\ LimitsParked /\ Tokens!Init /\ HooksParked /\ FilesParked /\ AppParked
    \/ part = "hooks" /\ LimitsParked /\ TokensParked /\ Hooks!Init /\ FilesParked /\ AppParked
    \/ part = "files" /\ LimitsParked /\ TokensParked /\ HooksParked /\ Files!Init /\ AppParked
    \/ part = "app" /\ LimitsParked /\ TokensParked /\ HooksParked /\ FilesParked /\ App!Init

LimitsNext == part = "limits" /\ Limits!Next /\ UNCHANGED <<part, TokensVars, HooksVars, FilesVars, AppVars>>
TokensNext == part = "tokens" /\ Tokens!Next /\ UNCHANGED <<part, LimitsVars, HooksVars, FilesVars, AppVars>>
HooksNext == part = "hooks" /\ Hooks!Next /\ UNCHANGED <<part, LimitsVars, TokensVars, FilesVars, AppVars>>
FilesNext == part = "files" /\ Files!Next /\ UNCHANGED <<part, LimitsVars, TokensVars, HooksVars, AppVars>>
AppNext == part = "app" /\ App!Next /\ UNCHANGED <<part, LimitsVars, TokensVars, HooksVars, FilesVars>>

RequestsNext == LimitsNext \/ TokensNext \/ HooksNext \/ FilesNext \/ AppNext

(* The worker takes link jobs as long as there are any.                     *)
RequestsSpec ==
    /\ RequestsInit /\ [][RequestsNext]_all
    /\ WF_all(part = "app" /\ App!LinkStep /\ UNCHANGED <<part, LimitsVars, TokensVars, HooksVars, FilesVars>>)

-----------------------------------------------------------------------------
(* What is checked of each part, as its own module states it.               *)
\* RateLimiter::check admits no caller more often than max_requests in a
\* window, and refuses one only for its own recent calls.
WindowKept == part = "limits" =>
    Limits!TypeOK /\ Limits!AdmittedWithinLimit /\ Limits!RefusedMeansBusy

\* rbac::enforce and needs_owner_check admit exactly whom the rule names,
\* inject_tenant_filter, verify_tenant and Subject show a tenant the same rows,
\* and a bearer token, refreshed or not, names a user no longer than its lifetime.
AccessAgrees == part = "tokens" =>
    Tokens!TypeOK /\ Tokens!RuleIsWhole /\ Tokens!TenantViewsAgree /\ Tokens!SignedInIsRecent

\* A row is written only after every before-hook has run and none failed;
\* run_write_side_effects follows exactly the requests that succeed; and a hook
\* can tell its phase by ctx.data, unless a plugin before it set data.
HooksAndEffectsInTurn == part = "hooks" =>
    Hooks!TypeOK /\ Hooks!WriteAfterHooks /\ Hooks!EffectsIffOk /\ Hooks!PhaseIsKnown

\* Every after-hook an endpoint declares runs before success is answered.
DeclaredHooksRun == part = "hooks" => Hooks!DeclaredHooksRun

\* No row ever names a file the backend does not have, the metadata columns
\* describe the file the row names, and a file no row names was left behind in
\* one of six known ways.
FilesMatchRows == part = "files" =>
    Files!TypeOK /\ Files!RowsNameStoredFiles /\ Files!MetadataIsOfTheFile /\ Files!OrphansExplained

\* Link jobs, ingest_alert, open_incident and enforce_incident_update, in any
\* order: an alert's status and incident_id agree, one alert of a kind is the
\* first in ten minutes, an incident has the commander, resolved_at and last
\* audit entry its status calls for.
IncidentsAgree == part = "app" =>
    /\ App!TypeOK
    /\ App!LinkIsWhole /\ App!OneFirstAlert
    /\ App!CommanderKept /\ App!ResolvedIsStamped /\ App!AuditTells

\* An alert whose link job waits ends up linked, unless no incident is active
\* any more or an administrator took it over.
AlertsAreLinked ==
    \A a \in Alerts :
        (part = "app" /\ \E r \in alert[a] : queued[a] > 0 /\ App!Candidates(r.service) # {})
            ~> (part = "app" /\ (a \in edited \/ \A r \in alert[a] : r.incident # {} \/ App!Candidates(r.service) = {}))
=============================================================================
