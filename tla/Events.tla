------------------------------- MODULE Events -------------------------------
(***************************************************************************)
(* Background events: what a write request or an inbound webhook makes of  *)
(* them (handlers/crud.rs, events/inbound.rs), EventEmitter::emit          *)
(* (events/emitter.rs), and the handlers that do the work later            *)
(* (events/log.rs, events/webhook.rs and the job registry of the incident  *)
(* platform, the application of the repository that registers all of       *)
(* them).                                                                  *)
(*                                                                         *)
(* The queue in between is JobLifecycle, which JobQueue is shown to        *)
(* implement.  Event names and patterns are the sequences of their         *)
(* dot-separated parts.                                                    *)
(***************************************************************************)
EXTENDS Naturals, Sequences, FiniteSets, SequencesExt

CONSTANTS
    Sources,       \* write requests and inbound webhook requests
    Calls,         \* Calls[s]: the emits and enqueues of source s, in order
    Inbound,       \* the sources that are inbound webhook requests
    Subscribers,   \* EventsConfig.subscribers in order, one entry per target
    HasDispatcher, \* whether the webhook secret is configured
    Retries,       \* max_retries of enqueue (3)
    Processes,     \* bound: workers that run jobs at the same time
    MaxFaults      \* bound: failed commands and statements, lost jobs

ASSUME EventsAssumption ==
    /\ Inbound \subseteq Sources /\ HasDispatcher \in BOOLEAN
    /\ Subscribers \in Seq(Range(Subscribers))
    /\ \A s \in Sources : Calls[s] \in Seq(Range(Calls[s]))
    /\ Retries \in Nat /\ Processes \in Nat \ {0} /\ MaxFaults \in Nat

-----------------------------------------------------------------------------
(* emit *)

\* event_matches: "*", the name itself, "*.suffix" or "prefix.*"
event_matches(pattern, name) ==
    \/ pattern = <<"*">> \/ pattern = name
    \/ /\ Len(pattern) > 1 /\ Head(pattern) = "*"
       /\ Len(name) >= Len(pattern) /\ IsSuffix(Tail(pattern), name)
    \/ /\ Len(pattern) > 1 /\ Last(pattern) = "*" /\ Head(pattern) # "*"
       /\ Len(name) >= Len(pattern) /\ IsPrefix(Front(pattern), name)

find_matching_subscribers(name) ==
    LET upto[i \in 0 .. Len(Subscribers)] == \* those among the first i
            IF i = 0 THEN << >>
            ELSE IF event_matches(Subscribers[i].event, name)
                 THEN Append(upto[i - 1], Subscribers[i]) ELSE upto[i - 1]
    IN  upto[Len(Subscribers)]

\* dispatch_to_target: the name of the job for a target
dispatch_to_target(target) ==
    CASE target.type = "job"     -> target.name
      [] target.type = "webhook" -> "webhook_deliver"
      [] target.type = "channel" -> "channel_broadcast"
      [] target.type = "hook"    -> "hook_execute"

Dispatched(name) ==
    LET subs == find_matching_subscribers(name)
    IN  [i \in DOMAIN subs |-> dispatch_to_target(subs[i].target)]

\* the jobs a call enqueues, in order: those of emit are the event log and
\* then every target of every matching subscriber; a declared job is one
Enqueues(c) ==
    IF c.kind = "job" THEN <<c.name>> ELSE <<"event_log">> \o Dispatched(c.name)

\* a job is known by its source, call, place in the list and name
Jobs == UNION {UNION {
            LET list == Enqueues(Calls[s][c])
            IN  {<<s, c, i, list[i]>> : i \in DOMAIN list} : c \in DOMAIN Calls[s]} : s \in Sources}

JobsOf(s, c) == {j \in Jobs : j[1] = s /\ j[2] = c}

VARIABLES
    call,      \* call[s]: index of the call source s is at, 0 before it starts
    nth,       \* nth[s]: the enqueue of that call that comes next
    failed,    \* failed[s]: calls that returned an error
    answer,    \* answer[s]: what the inbound request is answered, or "none"
    stage,     \* of JobLifecycle
    starts,    \* of JobLifecycle
    log,       \* (source, call) pairs in shaperail_event_log
    sent,      \* sent[j]: POSTs of job j that reached the webhook target
    result,    \* result[j]: what the handler holds between POST and INSERT
    delivered, \* delivered[j]: rows of shaperail_webhook_delivery_log
    room,      \* room[j]: messages job j published on the channel
    faults

queue == <<stage, starts>>
vars == <<call, nth, failed, answer, queue, log, sent, result, delivered, room, faults>>

Queue == INSTANCE JobLifecycle
    WITH MaxStarts <- [j \in Jobs |-> Retries], Handled <- Jobs

Fault == faults < MaxFaults /\ faults' = faults + 1

-----------------------------------------------------------------------------
(* Sources *)

\* run_write_side_effects of a write request: after the cache, the automatic
\* event, the declared events, the declared jobs.
Write(s) ==
    /\ s \notin Inbound /\ call[s] = 0
    /\ call' = [call EXCEPT ![s] = 1]
    /\ UNCHANGED <<nth, failed, answer, queue, log, sent, result, delivered, room, faults>>

\* verify_signature: the first of the configured header, X-Shaperail-Signature,
\* X-Hub-Signature-256 and Stripe-Signature that is present decides alone.
verify_signature(headers) ==
    LET present == {i \in DOMAIN headers : headers[i] # "absent"} IN
    present # {} /\ headers[CHOOSE i \in present : \A k \in present : i <= k] = "valid"

\* handle_inbound_webhook: the event inbound.<type> is emitted if the request
\* is signed, its body is JSON and the endpoint accepts the type (its list is
\* empty or holds it).
handle_inbound_webhook(s, headers, json, accepted) ==
    /\ s \in Inbound /\ answer[s] = "none" /\ call[s] = 0
    /\ IF ~verify_signature(headers) THEN answer' = [answer EXCEPT ![s] = "401"] /\ UNCHANGED call
       ELSE IF ~json THEN answer' = [answer EXCEPT ![s] = "422"] /\ UNCHANGED call
       ELSE IF ~accepted
       THEN answer' = [answer EXCEPT ![s] = "not_accepted"] /\ UNCHANGED call
       ELSE call' = [call EXCEPT ![s] = 1] /\ UNCHANGED answer
    /\ UNCHANGED <<nth, failed, queue, log, sent, result, delivered, room, faults>>

Done(s) == call[s] > Len(Calls[s])

\* The call is over; the next one is made whether or not it failed.
EndCall(s, error) ==
    /\ call' = [call EXCEPT ![s] = @ + 1]
    /\ nth' = [nth EXCEPT ![s] = 1]
    /\ failed' = [failed EXCEPT ![s] = IF error THEN @ \union {call[s]} ELSE @]

GiveUpMutant(s, error) ==
    /\ call' = [call EXCEPT ![s] = IF error THEN Len(Calls[s]) + 1 ELSE @ + 1]
    /\ nth' = [nth EXCEPT ![s] = 1]
    /\ failed' = [failed EXCEPT ![s] = IF error THEN @ \union {call[s]} ELSE @]

\* auto_emit_event, emit_declared_events, enqueue_declared_jobs: an error is
\* logged and the next call is made.
AfterCall(s, error) == EndCall(s, error)

\* One enqueue of emit.  It fails with or without having queued the job, and
\* the first failure ends emit.
EmitNext(s) ==
    \E j \in JobsOf(s, call[s]) :
    /\ j[3] = nth[s]
    /\ \/ /\ Queue!Accept(j) /\ UNCHANGED faults
          /\ IF nth[s] < Cardinality(JobsOf(s, call[s]))
             THEN nth' = [nth EXCEPT ![s] = @ + 1] /\ UNCHANGED <<call, failed>>
             ELSE AfterCall(s, FALSE)
       \/ (Queue!Accept(j) \/ Queue!Refuse(j)) /\ Fault /\ AfterCall(s, TRUE)
    /\ UNCHANGED <<answer, log, sent, result, delivered, room>>

\* the inbound request is answered as accepted whatever emit returned
Accept(s) ==
    /\ s \in Inbound /\ Done(s) /\ answer[s] = "none"
    /\ answer' = [answer EXCEPT ![s] = "accepted"]
    /\ UNCHANGED <<call, nth, failed, queue, log, sent, result, delivered, room, faults>>

-----------------------------------------------------------------------------
(* The worker and the job handlers *)

Busy == {j \in Jobs : stage[j] \in {"taken", "running"}}

Begin(j) ==
    /\ \/ Cardinality(Busy) < Processes /\ Queue!Take(j)
       \/ Queue!Run(j)
    /\ UNCHANGED <<call, nth, failed, answer, log, sent, result, delivered, room, faults>>

\* the handler returned an error
Retry(j) == Queue!Again(j) \/ Queue!Bury(j)

\* a crash, or a failed command of the queue
Lost(j) ==
    /\ stage[j] \in {"waiting", "taken", "running"} /\ Fault
    /\ Queue!Lose({j})
    /\ UNCHANGED <<call, nth, failed, answer, log, sent, result, delivered, room>>

Event(j) == <<j[1], j[2]>>

\* EventLog::append: event_id is the primary key
AppendRow(e) == e \notin log /\ log' = log \union {e}

\* shaperail:event_log: an INSERT that fails, also one that repeats a row
\* whose reply was lost, fails the handler.
AppendLog(j) ==
    /\ stage[j] = "running" /\ j[4] = "event_log"
    /\ \/ AppendRow(Event(j)) /\ Queue!Finish(j) /\ UNCHANGED faults
       \/ Event(j) \in log /\ Retry(j) /\ UNCHANGED <<log, faults>>
       \/ Fault /\ Retry(j) /\ (AppendRow(Event(j)) \/ UNCHANGED log)
    /\ UNCHANGED <<call, nth, failed, answer, sent, result, delivered, room>>

\* the POST of a signed request: the target answers with 2xx or not, or the
\* request ends in an error although it may have arrived
PostAnswers(j) ==
    \/ /\ sent' = [sent EXCEPT ![j] = @ + 1]
       /\ \E r \in {"success", "failed"} : result' = [result EXCEPT ![j] = r]
    \/ result' = [result EXCEPT ![j] = "failed"] /\ UNCHANGED sent

\* shaperail:webhook_deliver up to the answer
Post(j) ==
    /\ stage[j] = "running" /\ j[4] = "webhook_deliver" /\ result[j] = "none"
    /\ IF ~HasDispatcher THEN Queue!Finish(j) /\ UNCHANGED <<sent, result>>
       ELSE PostAnswers(j) /\ UNCHANGED queue
    /\ UNCHANGED <<call, nth, failed, answer, log, delivered, room, faults>>

\* WebhookDeliveryLog::record: every attempt has an id of its own
RecordRow(j) == delivered' = [delivered EXCEPT ![j] = Append(@, result[j])]

RetryFailureMutant(j) ==
    /\ stage[j] = "running" /\ result[j] # "none"
    /\ \/ RecordRow(j) /\ UNCHANGED faults
          /\ IF result[j] = "success" THEN Queue!Finish(j) ELSE Retry(j)
       \/ Fault /\ Retry(j) /\ (RecordRow(j) \/ UNCHANGED delivered)
    /\ result' = [result EXCEPT ![j] = "none"]
    /\ UNCHANGED <<call, nth, failed, answer, log, sent, room>>

\* The handler fails only if the record cannot be written; a delivery that was
\* refused is recorded and not tried again.
Record(j) ==
    /\ stage[j] = "running" /\ result[j] # "none"
    /\ \/ RecordRow(j) /\ Queue!Finish(j) /\ UNCHANGED faults
       \/ Fault /\ Retry(j) /\ (RecordRow(j) \/ UNCHANGED delivered)
    /\ result' = [result EXCEPT ![j] = "none"]
    /\ UNCHANGED <<call, nth, failed, answer, log, sent, room>>

\* shaperail:channel_broadcast, and write_status_projection once it has
\* invalidated the cache: publish, whose error fails the handler.
Broadcast(j) ==
    /\ stage[j] = "running" /\ j[4] \in {"channel_broadcast", "write_status_projection"}
    /\ \/ room' = [room EXCEPT ![j] = @ + 1] /\ Queue!Finish(j) /\ UNCHANGED faults
       \/ Fault /\ Retry(j) /\ (room' = [room EXCEPT ![j] = @ + 1] \/ UNCHANGED room)
    /\ UNCHANGED <<call, nth, failed, answer, log, sent, result, delivered>>

\* the handlers that only log
LogOnly(j) ==
    /\ stage[j] = "running"
    /\ j[4] \in {"hook_execute", "notify_on_call", "open_incident_from_webhook"}
    /\ Queue!Finish(j)
    /\ UNCHANGED <<call, nth, failed, answer, log, sent, result, delivered, room, faults>>

-----------------------------------------------------------------------------
Init ==
    /\ call = [s \in Sources |-> 0] /\ nth = [s \in Sources |-> 1]
    /\ failed = [s \in Sources |-> {}]
    /\ answer = [s \in Sources |-> "none"]
    /\ Queue!Init
    /\ log = {}
    /\ sent = [j \in Jobs |-> 0] /\ result = [j \in Jobs |-> "none"]
    /\ delivered = [j \in Jobs |-> << >>] /\ room = [j \in Jobs |-> 0]
    /\ faults = 0

\* signature headers of a request, in the order verify_signature reads them
Headers == {<<"absent", "absent", "absent", "absent">>, <<"absent", "valid", "absent", "absent">>,
            <<"invalid", "valid", "absent", "absent">>, <<"absent", "absent", "absent", "valid">>}

Handler(j) == AppendLog(j) \/ Post(j) \/ Record(j) \/ Broadcast(j) \/ LogOnly(j)

Next ==
    \/ \E s \in Sources :
          \/ Write(s) \/ EmitNext(s) \/ Accept(s)
          \/ \E h \in Headers, json, accepted \in BOOLEAN :
                handle_inbound_webhook(s, h, json, accepted)
    \/ \E j \in Jobs : Begin(j) \/ Handler(j) \/ Lost(j)

Spec == Init /\ [][Next]_vars

\* A request that has begun finishes, and the worker keeps taking and running
\* jobs; nothing obliges a client to send a request.
Fairness ==
    /\ \A s \in Sources : WF_vars(EmitNext(s) \/ Accept(s))
    /\ WF_vars(\E j \in Jobs : Begin(j) \/ Handler(j))

LiveSpec == Spec /\ Fairness

-----------------------------------------------------------------------------
(* Properties *)

\* Every variable has its type.
TypeOK ==
    /\ \A s \in Sources : call[s] \in 0..(Len(Calls[s]) + 1) /\ failed[s] \subseteq 1..Len(Calls[s])
    /\ \A s \in Sources : ~Done(s) /\ call[s] > 0 => \E j \in JobsOf(s, call[s]) : j[3] = nth[s]
    /\ answer \in [Sources -> {"none", "401", "422", "not_accepted", "accepted"}]
    /\ stage \in [Jobs -> Queue!Stages]
    /\ starts \in [Jobs -> 0..Retries]
    /\ sent \in [Jobs -> Nat] /\ room \in [Jobs -> Nat] /\ faults \in 0..MaxFaults

\* Whatever fails, the jobs of one emit are the first ones of its list, so a
\* target never learns of an event whose log entry was not queued; and emit
\* reports success exactly when it queued them all.
ServedInOrder ==
    \A s \in Sources : \A c \in DOMAIN Calls[s] :
        LET queued == {j \in JobsOf(s, c) : stage[j] \notin {"new", "gone"} \/ starts[j] > 0}
        IN  /\ \A j \in queued : \A k \in JobsOf(s, c) : k[3] < j[3] => stage[k] # "new"
            /\ Calls[s][c].kind = "event" => \A j \in queued : j[4] # "event_log" =>
                  \E k \in JobsOf(s, c) : k[3] < j[3] /\ k[4] = "event_log"
            /\ call[s] > c /\ c \notin failed[s] => \A j \in JobsOf(s, c) : stage[j] # "new"

\* One failing emit or enqueue takes no other with it: of the calls a finished
\* request was to make, at most one per fault did not queue all its jobs.
FailuresStayLocal ==
    \A s \in Sources : Done(s) =>
        Cardinality({c \in DOMAIN Calls[s] :
            \E j \in JobsOf(s, c) : stage[j] \in {"new", "gone"}}) <= faults

\* Every POST of a webhook after the first follows a record that could not be
\* written or whose reply was lost: neither an answer other than 2xx nor a
\* second start of an acknowledged delivery posts again.
PostsExplained ==
    \A j \in Jobs : j[4] = "webhook_deliver" => sent[j] <= 1 + faults

\* An event appears in the log once, and a job that reports success did its
\* work: the log row, the delivery record or the published message is there.
DoneMeansDone ==
    \A j \in Jobs : stage[j] = "done" =>
        /\ j[4] = "event_log" => Event(j) \in log
        /\ j[4] = "webhook_deliver" /\ HasDispatcher => delivered[j] # << >>
        /\ j[4] \in {"channel_broadcast", "write_status_projection"} => room[j] > 0

\* emit queues the jobs of an event in the order of its targets, the log entry
\* first; one failing emit or enqueue takes no other with it; and a job that
\* reports success did its work.
EmitsAccountedFor == TypeOK /\ ServedInOrder /\ FailuresStayLocal /\ DoneMeansDone

\* Unless something fails, every event of a source that has begun is logged
\* and each of its jobs is done: emit skips no target, and no retry, record or
\* broadcast is dropped by a handler.
EventsArrive ==
    \A s \in Sources : call[s] = 1 ~>
        \/ faults > 0
        \/ /\ \A c \in 1..Len(Calls[s]) : Calls[s][c].kind = "event" => <<s, c>> \in log
           /\ \A j \in Jobs : j[1] = s => stage[j] = "done"
=============================================================================
