------------------------------ MODULE Incidents -------------------------------
(***************************************************************************)
(* An application on the framework: examples/incident-platform, its        *)
(* controllers, its generated stores and the job that links alerts to      *)
(* incidents.  One organisation.                                           *)
(*                                                                         *)
(* The controllers check by SELECT and the store writes later, nothing in    *)
(* between is locked.  An alert's creation enqueues the link job twice:    *)
(* once as a job of the endpoint, once as a subscriber of alert.received.  *)
(* GraphQL runs no controllers; of its writes only the creation of alerts    *)
(* and the deletions get past validate_input.  gRPC binds text to uuid     *)
(* columns, so that Postgres refuses every write of it.                    *)
(***************************************************************************)
EXTENDS Integers, Sequences, FiniteSets

CONSTANTS
    Services,     \* the monitored services
    Rows,         \* the ids of incidents, numbers in the order of creation
    Alerts,       \* the ids of alerts, numbers in the order of their requests
    Prints,       \* the fingerprints
    MaxRequests,  \* bound on the requests of clients
    MaxFaults     \* bound on enqueues, jobs and audit inserts that fail

VARIABLES
    service,   \* service[s]: "none", "active" or "deleted"
    incident,  \* incident[i]: {} or the row
    alert,     \* alert[a]: {} or the row
    check,     \* check[a]: what ingest_alert found, while its request runs
    young,     \* the alerts created in the last ten minutes
    queued,    \* queued[a]: how many of the alert's two link jobs wait
    linking,   \* linking[a][i]: how many have found incident i and not yet written
    pending,   \* updates of incidents that have been written and not audited
    log,       \* log[i]: the status in the incident's last audit entry, <<>> before any
    spoilt,    \* incidents whose audit raced or failed
    cleared,   \* incidents whose commander_id an update set to null
    edited,    \* alerts that an administrator updated
    requests, faults

vars == <<service, incident, alert, check, young, queued, linking, pending, log, spoilt,
          cleared, edited, requests, faults>>

Active == {"open", "acknowledged", "mitigated"}
Over == {"resolved", "closed"}
Statuses == Active \cup Over

Init ==
    /\ service = [s \in Services |-> "none"]
    /\ incident = [i \in Rows |-> {}]
    /\ alert = [a \in Alerts |-> {}]
    /\ check = [a \in Alerts |-> {}]
    /\ young = {}
    /\ queued = [a \in Alerts |-> 0]
    /\ linking = [a \in Alerts |-> [i \in Rows |-> 0]]
    /\ pending = {} /\ log = [i \in Rows |-> <<>>] /\ spoilt = {}
    /\ cleared = {} /\ edited = {}
    /\ requests = 0 /\ faults = 0

\* A client sends one more request.
Sent == requests < MaxRequests /\ requests' = requests + 1

-----------------------------------------------------------------------------
(* Services and incidents.                                                  *)

\* prepare_service: a critical service has a runbook.
prepare_service(in) == in.tier = "critical" => in.runbook

\* handle_create for services; not counted as a request. The tier is never read again.
create_service(s, in) ==
    /\ service[s] = "none"
    /\ prepare_service(in)
    /\ service' = [service EXCEPT ![s] = "active"]
    /\ UNCHANGED <<incident, alert, check, young, queued, linking, pending, log, spoilt, cleared, edited, requests, faults>>

\* soft_delete_by_id; incidents and alerts keep referring to the row.
delete_service(s) ==
    /\ service[s] = "active" /\ Sent
    /\ service' = [service EXCEPT ![s] = "deleted"]
    /\ UNCHANGED <<incident, alert, check, young, queued, linking, pending, log, spoilt, cleared, edited, faults>>

\* open_incident: an active service, and a commander for sev1 and sev2.
open_incident(in) ==
    /\ service[in.service] = "active"
    /\ in.severity = "high" => in.commander

\* handle_create. The row is new, so that check and insert race with nothing
\* but the deletion of the service, which keeps the row the insert refers to.
create_incident(i, in) ==
    /\ incident[i] = {} /\ \A j \in Rows : j < i => incident[j] # {}
    /\ open_incident(in) /\ Sent
    /\ incident' = [incident EXCEPT ![i] =
          {[service |-> in.service, severity |-> in.severity, commander |-> in.commander,
            status |-> "open", resolved_at |-> FALSE, live |-> TRUE]}]
    /\ UNCHANGED <<service, alert, check, young, queued, linking, pending, log, spoilt, cleared, edited, faults>>

Live(i) == \E r \in incident[i] : r.live

\* enforce_incident_update. `entitled' is the admin role or X-Resolution-Reason.
enforce_incident_update(in) ==
    /\ in.status = <<"acknowledged">> => in.commander = "set"
    /\ (in.status \in {<<s>> : s \in Over}) => in.entitled

\* update_by_id with the stamps the controller added.
Updated(r, in) ==
    [r EXCEPT !.status = IF in.status = <<>> THEN @ ELSE in.status[1],
              !.commander = IF in.commander = "absent" THEN @ ELSE in.commander = "set",
              !.resolved_at = @ \/ in.status \in {<<s>> : s \in Over}]

\* handle_update over REST, up to the write. The body is not empty.
update_incident(i, in) ==
    /\ Live(i) /\ Sent
    /\ in.status # <<>> \/ in.commander # "absent"
    /\ enforce_incident_update(in)
    /\ \E r \in incident[i] :
          /\ incident' = [incident EXCEPT ![i] = {Updated(r, in)}]
          /\ pending' = pending \cup {[id |-> requests, row |-> i, status |-> Updated(r, in).status]}
    /\ spoilt' = spoilt \cup {p.row : p \in {q \in pending : q.row = i}}
    /\ cleared' = IF in.commander = "null" THEN cleared \cup {i} ELSE cleared
    /\ UNCHANGED <<service, alert, check, young, queued, linking, log, edited, faults>>

\* write_incident_audit: the row as this request wrote it.
Audited(p) == [log EXCEPT ![p.row] = <<p.status>>]

audit(p) ==
    /\ \/ /\ log' = Audited(p) /\ UNCHANGED <<spoilt, faults>>
       \/ /\ faults < MaxFaults
          /\ faults' = faults + 1 /\ spoilt' = spoilt \cup {p.row} /\ UNCHANGED log
    /\ pending' = pending \ {p}
    /\ UNCHANGED <<service, incident, alert, check, young, queued, linking, cleared, edited, requests>>

delete_incident(i) ==
    /\ Live(i) /\ Sent
    /\ incident' = [incident EXCEPT ![i] = {[r EXCEPT !.live = FALSE] : r \in @}]
    /\ UNCHANGED <<service, alert, check, young, queued, linking, pending, log, spoilt, cleared, edited, faults>>

-----------------------------------------------------------------------------
(* Alerts.                                                                  *)

Exists(a) == alert[a] # {}

\* The next id.
Free(a) == ~Exists(a) /\ check[a] = {} /\ \A b \in Alerts : b < a => Exists(b) \/ check[b] # {}

OnlyReceivedMutant(fp) ==
    {a \in young : \E r \in alert[a] : r.fingerprint = fp /\ r.status = "received"}

\* The alerts that make a new one a duplicate.
Duplicates(fp) ==
    {a \in young : \E r \in alert[a] : r.fingerprint = fp /\ r.status # "ignored"}

\* ingest_alert: the service is active; the status follows from the input and
\* from the duplicates found.
ingest_alert(a, in) ==
    /\ Free(a) /\ Sent
    /\ service[in.service] = "active"
    /\ \A i \in in.incident : incident[i] # {}
    /\ check' = [check EXCEPT ![a] =
          {[in |-> in, known |-> {b \in Alerts : Exists(b)},
            status |-> IF in.incident # {} THEN "linked"
                       ELSE IF Duplicates(in.fingerprint) # {} THEN "deduped" ELSE "received"]}]
    /\ UNCHANGED <<service, incident, alert, young, queued, linking, pending, log, spoilt, cleared, edited, faults>>

Row(in, status, known) ==
    [service |-> in.service, incident |-> in.incident, fingerprint |-> in.fingerprint,
     status |-> status, known |-> IF status = "received" THEN known ELSE {}]

\* The insert, then enqueue_declared_jobs and the subscriber of alert.received;
\* one of the two enqueues may fail, which is logged.
Insert(a, row) ==
    /\ alert' = [alert EXCEPT ![a] = {row}]
    /\ young' = young \cup {a}
    /\ \/ queued' = [queued EXCEPT ![a] = 2] /\ UNCHANGED faults
       \/ /\ faults < MaxFaults /\ faults' = faults + 1
          /\ queued' = [queued EXCEPT ![a] = 1]
    /\ UNCHANGED <<service, incident, linking, pending, log, spoilt, cleared, edited>>

\* handle_create, from the insert on.
create_alert(a) ==
    /\ \E c \in check[a] : Insert(a, Row(c.in, c.status, {c.known}))
    /\ check' = [check EXCEPT ![a] = {}]
    /\ UNCHANGED requests

\* create_alerts of GraphQL: no controller, the default status.
graphql_create_alert(a, in) ==
    /\ Free(a) /\ in.incident = {} /\ Sent
    /\ service[in.service] # "none"
    /\ Insert(a, Row(in, "received", {}))
    /\ UNCHANGED check

\* reconcile_alert_link: a link needs an incident that is not deleted.
reconcile_alert_link(in) ==
    in.status = <<"linked">> => \E i \in Rows : in.incident = <<{i}>> /\ Live(i)

\* handle_update by an administrator: incident_id and status, each given or not.
update_alert(a, in) ==
    /\ Exists(a) /\ Sent
    /\ in.status # <<>> \/ in.incident # <<>>
    /\ \A k \in DOMAIN in.incident : \A i \in in.incident[k] : incident[i] # {}
    /\ reconcile_alert_link(in)
    /\ alert' = [alert EXCEPT ![a] =
          {[r EXCEPT !.status = IF in.status = <<>> THEN @ ELSE in.status[1],
                     !.incident = IF in.incident = <<>> THEN @ ELSE in.incident[1]] : r \in @}]
    /\ edited' = edited \cup {a}
    /\ UNCHANGED <<service, incident, check, young, queued, linking, pending, log, spoilt, cleared, faults>>

Ages(a) ==
    /\ a \in young
    /\ young' = young \ {a}
    /\ UNCHANGED <<service, incident, alert, check, queued, linking, pending, log, spoilt, cleared, edited, requests, faults>>

-----------------------------------------------------------------------------
(* The job link_alert_to_incident.                                          *)

Candidates(s) == {i \in Rows : \E r \in incident[i] : r.service = s /\ r.live /\ r.status \in Active}

\* ORDER BY created_at DESC LIMIT 1
Newest(S) == {i \in S : \A j \in S : j <= i}

\* The SELECT of link_alert_to_incident; without an active incident the job is done.
LinkSelects(a) ==
    /\ queued[a] > 0
    /\ queued' = [queued EXCEPT ![a] = @ - 1]
    /\ \E r \in alert[a] :
          LET found == Newest(Candidates(r.service)) IN
          linking' = [linking EXCEPT ![a] = [i \in Rows |-> @[i] + (IF i \in found THEN 1 ELSE 0)]]
    /\ UNCHANGED <<service, incident, alert, check, young, pending, log, spoilt, cleared, edited, requests, faults>>

StatusOnlyMutant(r, found) == [r EXCEPT !.status = "linked"]

\* UPDATE alerts SET incident_id, status = 'linked'
Linked(r, found) == [r EXCEPT !.incident = found, !.status = "linked"]

LinkUpdates(a, i) ==
    /\ linking[a][i] > 0
    /\ alert' = [alert EXCEPT ![a] = {Linked(r, {i}) : r \in @}]
    /\ linking' = [linking EXCEPT ![a][i] = @ - 1]
    /\ UNCHANGED <<service, incident, check, young, queued, pending, log, spoilt, cleared, edited, requests, faults>>

\* The UPDATE fails, or the worker is stopped, and the job is taken up again.
LinkFails(a, i) ==
    /\ linking[a][i] > 0 /\ faults < MaxFaults
    /\ linking' = [linking EXCEPT ![a][i] = @ - 1]
    /\ queued' = [queued EXCEPT ![a] = @ + 1]
    /\ faults' = faults + 1
    /\ UNCHANGED <<service, incident, alert, check, young, pending, log, spoilt, cleared, edited, requests>>

-----------------------------------------------------------------------------
ServiceInput == [tier : {"critical", "standard"}, runbook : BOOLEAN]
IncidentInput == {in \in [service : Services, severity : {"high", "low"}, commander : BOOLEAN] :
                     in.severity = "low" => ~in.commander}
IncidentChange == [status : {<<>>} \cup {<<s>> : s \in {"open", "acknowledged", "resolved"}},
                   commander : {"absent", "null", "set"}, entitled : BOOLEAN]
AlertInput == [service : Services, incident : {{}} \cup {{i} : i \in Rows}, fingerprint : Prints]
AlertChange == [status : {<<>>, <<"linked">>, <<"ignored">>},
                incident : {<<>>, <<{}>>} \cup {<<{i}>> : i \in Rows}]

LinkStep == \E a \in Alerts : LinkSelects(a) \/ \E i \in Rows : LinkUpdates(a, i)

Next ==
    \/ \E s \in Services : delete_service(s) \/ \E in \in ServiceInput : create_service(s, in)
    \/ \E i \in Rows : \/ \E in \in IncidentInput : create_incident(i, in)
                       \/ \E in \in IncidentChange : update_incident(i, in)
                       \/ delete_incident(i)
    \/ \E p \in pending : audit(p)
    \/ \E a \in Alerts : \/ \E in \in AlertInput : ingest_alert(a, in) \/ graphql_create_alert(a, in)
                         \/ \E in \in AlertChange : update_alert(a, in)
                         \/ create_alert(a) \/ Ages(a)
    \/ LinkStep
    \/ \E a \in Alerts, i \in Rows : LinkFails(a, i)

-----------------------------------------------------------------------------
TypeOK ==
    /\ \A i \in Rows : Cardinality(incident[i]) <= 1 /\ \A r \in incident[i] : r.status \in Statuses
    /\ \A a \in Alerts : /\ Cardinality(alert[a]) <= 1
                         /\ \A r \in alert[a] : r.status \in {"received", "deduped", "linked", "ignored"}
    /\ \A a \in Alerts : queued[a] \in 0 .. 2 /\ \A i \in Rows : linking[a][i] \in 0 .. 2
    /\ requests \in 0 .. MaxRequests /\ faults \in 0 .. MaxFaults

\* Status and incident_id of an alert agree, however many link jobs run, race or
\* are repeated, until an administrator's update sets one without the other.
LinkIsWhole ==
    \A a \in Alerts \ edited : \A r \in alert[a] : (r.status = "linked") <=> (r.incident # {})

\* An alert that ingest took for the first of its kind was created without
\* knowing of any other with its fingerprint that is less than ten minutes old
\* now, unless an administrator touched one of them; also when the link job has
\* moved the other on in the meantime.
OneFirstAlert ==
    \A a, b \in young \ edited : \A r \in alert[a], q \in alert[b] :
        r.fingerprint = q.fingerprint => \A known \in q.known : a \notin known

\* A sev1 or sev2 incident and an acknowledged one have a commander, unless an
\* update took the commander away without touching the status.
CommanderKept ==
    \A i \in Rows \ cleared : \A r \in incident[i] :
        (r.severity = "high" \/ r.status = "acknowledged") => r.commander

\* A resolved or closed incident has its resolved_at, whoever updated it last.
ResolvedIsStamped ==
    \A i \in Rows : \A r \in incident[i] : r.status \in Over => r.resolved_at

\* The last audit entry of an incident tells the status it has, unless two
\* updates of it overlapped or an entry could not be written.
AuditTells ==
    \A i \in Rows \ spoilt :
        (log[i] # <<>> /\ \A p \in pending : p.row # i) => \A r \in incident[i] : log[i] = <<r.status>>
=============================================================================
